---- MODULE Spec2Model ----
(***************************************************************************)
(* Model of the metrics engine of fittwin-health-ai (src/src/lib/metrics.ts):*)
(* computeBaseline, computeReadiness, computeBurnoutRisk, detectAnomalies   *)
(* and simulateWhatIf, and of the agents built on it (SleepAgent,           *)
(* FitnessCoachAgent, BurnoutGuardianAgent, AWSBedrockAgentExample).        *)
(*                                                                          *)
(* Numbers.  Every JavaScript number of the engine is modelled as an exact  *)
(* fraction [num, den] with den >= 0.  den = 0 stands for the values a      *)
(* division by zero produces: num > 0 is Infinity, num < 0 is -Infinity and *)
(* num = 0 is NaN (0/0).  Comparison by cross-multiplication then behaves   *)
(* as the IEEE comparison does: every comparison with NaN is false.         *)
(* Rounding of doubles is not modelled.                                     *)
(*                                                                          *)
(* Units.  The fields of a DailyMetrics record are integers; sleepHours is  *)
(* counted in tenths of an hour (75 is 7.5 h).  The fields date, steps and  *)
(* workoutMinutes are read by none of the modelled functions and are left   *)
(* out of the records.                                                      *)
(***************************************************************************)
EXTENDS Integers, Sequences, FiniteSets, TLC

VARIABLES
    op,         \* the call that produced the current results, "init" before it
    metrics,    \* computeBaseline's argument: the history, oldest first
    today,      \* computeReadiness's argument today
    last7Days,  \* the window argument of computeReadiness / computeBurnoutRisk
    baseline,   \* computeBaseline's result, the baseline argument of the others
    readiness,  \* computeReadiness's result {score, explanation}
    riskScore,  \* computeBurnoutRisk's local riskScore at its return
    burnout,    \* computeBurnoutRisk's result {level, rationale, actions}
    anomalies,  \* detectAnomalies's result
    optionLabel,     \* simulateWhatIf's argument optionLabel, a sequence of characters
    simulation,      \* simulateWhatIf's result
    recommendations, \* the recommendations an agent's analyze returned
    now,        \* the value of Date.now() during the analysis
    invoke,     \* AWSBedrockAgentExample: the state of supabase.functions.invoke
    rejected,   \* AWSBedrockAgentExample: analyze's promise rejected
    history,    \* the recommendation lists of the analysis cycles completed
    orchestrator,       \* AgentOrchestrator: registry and the run of analyze
    pullToRefresh,      \* PullToRefresh: its state and the refresh in flight
    breathingExercise,  \* BreathingExercise: its state, timers and saved sessions
    calendar    \* parseICalendar: the lines of icsContent and the events returned

\* the variables of the agents, of detectAnomalies and of simulateWhatIf
extVars == <<anomalies, optionLabel, simulation, recommendations, now, invoke, rejected>>

\* the variables of the analysis cycle, the orchestrator, the components and
\* the calendar parser
compVars == <<history, orchestrator, pullToRefresh, breathingExercise, calendar>>

vars == <<op, metrics, today, last7Days, baseline, readiness, riskScore, burnout,
          anomalies, optionLabel, simulation, recommendations, now, invoke, rejected,
          history, orchestrator, pullToRefresh, breathingExercise, calendar>>

----------------------------------------------------------------------------
(* Bounds of the model *)

\* longest history handed to computeBaseline (the window is 14 records)
MaxHistory == 15
\* longest sequence of older records prepended to a history
MaxOlder == 2
\* longest window handed to computeBurnoutRisk
MaxWindow == 7

----------------------------------------------------------------------------
(* JavaScript numbers as fractions *)

Rat(n, d) == [num |-> n, den |-> d]
Num(i) == Rat(i, 1)

\* a / b
Div(a, b) ==
    LET n == a.num * b.den
        d == a.den * b.num
    IN IF d < 0 THEN Rat(-n, -d) ELSE Rat(n, d)
\* a * b
Mul(a, b) == Rat(a.num * b.num, a.den * b.den)
\* a - b
Sub(a, b) == Rat(a.num * b.den - b.num * a.den, a.den * b.den)
\* a < b and a > b
Lt(a, b) == a.num * b.den < b.num * a.den
Gt(a, b) == Lt(b, a)
\* a is an ordinary number: neither NaN nor an infinity
IsFinite(a) == a.den > 0
IsNaN(a) == a.den = 0 /\ a.num = 0
\* a and b are the same ordinary number
SameNumber(a, b) == IsFinite(a) /\ IsFinite(b) /\ a.num * b.den = b.num * a.den

----------------------------------------------------------------------------
(* Array helpers *)

\* arr.slice(-k)
sliceLast(arr, k) ==
    LET n == Len(arr)
        start == IF n > k THEN n - k ELSE 0
    IN SubSeq(arr, start + 1, n)

\* arr.slice(0, k): the first k elements
sliceFirst(arr, k) == SubSeq(arr, 1, IF Len(arr) > k THEN k ELSE Len(arr))

\* arr.reduce((sum, m) => sum + m[field], 0)
RECURSIVE reduceField(_, _, _)
reduceField(arr, field, acc) ==
    IF arr = <<>> THEN acc
    ELSE reduceField(Tail(arr), field, acc + Head(arr)[field])

----------------------------------------------------------------------------
(* DailyMetrics records *)

Day(h, r, sh, se, st, tl, mo, en) ==
    [hrv |-> h, restingHr |-> r, sleepHours |-> sh, sleepEfficiency |-> se,
     stressScore |-> st, trainingLoad |-> tl, moodScore |-> mo, energyScore |-> en]

\* a day on which every metric sits at the default baseline
NormalDay == Day(60, 60, 75, 85, 50, 0, 4, 4)
\* a strained day: every baseline field differs from NormalDay
StrainedDay == Day(45, 70, 60, 70, 80, 90, 2, 2)

\* a record without data: every field is 0
ZeroDay == Day(0, 0, 0, 0, 0, 0, 0, 0)

\* the records a history is made of
HistoryDays == {NormalDay, StrainedDay}

\* every history of at most MaxHistory records
Histories == UNION {[1..n -> HistoryDays] : n \in 0..MaxHistory}

\* the sequences of older records that can precede a history
OlderRecords == UNION {[1..n -> HistoryDays] : n \in 1..MaxOlder}

----------------------------------------------------------------------------
(* computeBaseline *)

DefaultBaseline ==
    [hrv |-> Num(60), restingHr |-> Num(60), sleepHours |-> Num(75),
     sleepEfficiency |-> Num(85), stressScore |-> Num(50)]

last14_first(metrics_) == sliceFirst(metrics_, 14)
last14_13(metrics_) == sliceLast(metrics_, 13)
\* const last14 = metrics.slice(-14)
last14(metrics_) == sliceLast(metrics_, 14)

\* the reduce over last14: the five field sums
sum(arr) ==
    [hrv |-> reduceField(arr, "hrv", 0),
     restingHr |-> reduceField(arr, "restingHr", 0),
     sleepHours |-> reduceField(arr, "sleepHours", 0),
     sleepEfficiency |-> reduceField(arr, "sleepEfficiency", 0),
     stressScore |-> reduceField(arr, "stressScore", 0)]

\* the returned object: each sum divided by last14.length
average(arr) ==
    LET s == sum(arr)
        n == Num(Len(arr))
    IN [hrv |-> Div(Num(s.hrv), n),
        restingHr |-> Div(Num(s.restingHr), n),
        sleepHours |-> Div(Num(s.sleepHours), n),
        sleepEfficiency |-> Div(Num(s.sleepEfficiency), n),
        stressScore |-> Div(Num(s.stressScore), n)]

computeBaseline_unguarded(metrics_) == average(last14(metrics_))
computeBaseline(metrics_) ==
    IF Len(metrics_) = 0 THEN DefaultBaseline
    ELSE average(last14(metrics_))

----------------------------------------------------------------------------
(* computeReadiness *)

MathMax(a, b) == IF a > b THEN a ELSE b
MathMin(a, b) == IF a < b THEN a ELSE b

\* score -= points; explanation.push(note)
deduct(r, points, note) ==
    [score |-> r.score - points, explanation |-> Append(r.explanation, note)]

\* (today.sleepHours / baseline.sleepHours) * (today.sleepEfficiency / 100) * 100
sleepScore(today_, baseline_) ==
    Mul(Mul(Div(Num(today_.sleepHours), baseline_.sleepHours),
            Div(Num(today_.sleepEfficiency), Num(100))),
        Num(100))

\* ((today.hrv - baseline.hrv) / baseline.hrv) * 100
hrvDelta(today_, baseline_) ==
    Mul(Div(Sub(Num(today_.hrv), baseline_.hrv), baseline_.hrv), Num(100))

\* ((today.restingHr - baseline.restingHr) / baseline.restingHr) * 100
hrDelta(today_, baseline_) ==
    Mul(Div(Sub(Num(today_.restingHr), baseline_.restingHr), baseline_.restingHr),
        Num(100))

\* Sleep quality
sleepRule(r, today_, baseline_) ==
    IF Lt(sleepScore(today_, baseline_), Num(70))
    THEN deduct(r, 20, "Poor sleep quality impacting recovery")
    ELSE IF Lt(sleepScore(today_, baseline_), Num(85))
    THEN deduct(r, 10, "Sleep could be better")
    ELSE deduct(r, 0, "Good sleep quality")

hrvRule_lenient(r, today_, baseline_) ==
    IF Lt(hrvDelta(today_, baseline_), Num(-20))
    THEN deduct(r, 25, "HRV significantly below baseline - high stress or fatigue")
    ELSE IF Lt(hrvDelta(today_, baseline_), Num(-5))
    THEN deduct(r, 10, "HRV slightly below baseline")
    ELSE IF Gt(hrvDelta(today_, baseline_), Num(5))
    THEN deduct(r, 0, "HRV above baseline - good recovery")
    ELSE r
\* HRV
hrvRule(r, today_, baseline_) ==
    IF Lt(hrvDelta(today_, baseline_), Num(-15))
    THEN deduct(r, 25, "HRV significantly below baseline - high stress or fatigue")
    ELSE IF Lt(hrvDelta(today_, baseline_), Num(-5))
    THEN deduct(r, 10, "HRV slightly below baseline")
    ELSE IF Gt(hrvDelta(today_, baseline_), Num(5))
    THEN deduct(r, 0, "HRV above baseline - good recovery")
    ELSE r

hrRule_late(r, today_, baseline_) ==
    IF Gt(hrDelta(today_, baseline_), Num(15))
    THEN deduct(r, 20, "Elevated resting heart rate - possible overtraining or illness")
    ELSE IF Gt(hrDelta(today_, baseline_), Num(5))
    THEN deduct(r, 10, "Slightly elevated resting heart rate")
    ELSE r
\* Resting HR
hrRule(r, today_, baseline_) ==
    IF Gt(hrDelta(today_, baseline_), Num(10))
    THEN deduct(r, 20, "Elevated resting heart rate - possible overtraining or illness")
    ELSE IF Gt(hrDelta(today_, baseline_), Num(5))
    THEN deduct(r, 10, "Slightly elevated resting heart rate")
    ELSE r

\* Training load
loadRule(r, today_) ==
    IF today_.trainingLoad > 80
    THEN deduct(r, 15, "High training load - need recovery")
    ELSE r

\* Mood and energy
moodRule(r, today_) ==
    IF today_.moodScore <= 2 \/ today_.energyScore <= 2
    THEN deduct(r, 15, "Low mood or energy levels")
    ELSE r

\* Stress
stressRule(r, today_) ==
    IF today_.stressScore > 75
    THEN deduct(r, 10, "High stress levels")
    ELSE r

clamp_upperOnly(score) == MathMin(100, score)
\* Math.max(0, Math.min(100, score))
clamp(score) == MathMax(0, MathMin(100, score))

computeReadiness_usesWindow(today_, baseline_, last7Days_) ==
    LET r0 == [score |-> 100, explanation |-> <<>>]
        r1 == sleepRule(r0, today_, baseline_)
        r2 == hrvRule(r1, today_, baseline_)
        r3 == hrRule(r2, today_, baseline_)
        r4 == loadRule(r3, today_)
        r5 == moodRule(r4, today_)
        r6 == stressRule(r5, today_)
        r7 == IF Len(last7Days_) > 0 /\ last7Days_[1].trainingLoad > 80
              THEN deduct(r6, 5, "High training load this week")
              ELSE r6
    IN [score |-> clamp(r7.score), explanation |-> r7.explanation]
\* last7Days is a parameter the body never reads
computeReadiness(today_, baseline_, last7Days_) ==
    LET r0 == [score |-> 100, explanation |-> <<>>]
        r1 == sleepRule(r0, today_, baseline_)
        r2 == hrvRule(r1, today_, baseline_)
        r3 == hrRule(r2, today_, baseline_)
        r4 == loadRule(r3, today_)
        r5 == moodRule(r4, today_)
        r6 == stressRule(r5, today_)
    IN [score |-> clamp(r6.score), explanation |-> r6.explanation]

----------------------------------------------------------------------------
(* computeBurnoutRisk *)

\* const last3Days = last7Days.slice(-3)
last3Days(last7Days_) == sliceLast(last7Days_, 3)

\* arr.reduce((sum, m) => sum + m[field], 0) / arr.length
avg(arr, field) == Div(Num(reduceField(arr, field, 0)), Num(Len(arr)))

avgHRV(last7Days_) == avg(last3Days(last7Days_), "hrv")
avgHR(last7Days_) == avg(last3Days(last7Days_), "restingHr")
avgSleepEff(last7Days_) == avg(last7Days_, "sleepEfficiency")
avgStress(last7Days_) == avg(last7Days_, "stressScore")
avgMood(last7Days_) == avg(last7Days_, "moodScore")
avgEnergy(last7Days_) == avg(last7Days_, "energyScore")

\* riskScore += points; rationale.push(why); actions.push(action)
penalty(st, points, why, action) ==
    [riskScore |-> st.riskScore + points,
     rationale |-> Append(st.rationale, why),
     actions |-> Append(st.actions, action)]

\* HRV trending down
hrvTrend(st, last7Days_, baseline_) ==
    IF Lt(avgHRV(last7Days_), Mul(baseline_.hrv, Rat(85, 100)))
    THEN penalty(st, 30, "HRV has been declining for 3+ days",
                 "Prioritize sleep and reduce training intensity")
    ELSE st

hrElevated_assign(st, last7Days_, baseline_) ==
    IF Gt(avgHR(last7Days_), Mul(baseline_.restingHr, Rat(11, 10)))
    THEN penalty([st EXCEPT !.riskScore = 0], 25,
                 "Resting heart rate elevated above baseline",
                 "Take an extra rest day and monitor for illness")
    ELSE st
\* Resting HR elevated
hrElevated(st, last7Days_, baseline_) ==
    IF Gt(avgHR(last7Days_), Mul(baseline_.restingHr, Rat(11, 10)))
    THEN penalty(st, 25, "Resting heart rate elevated above baseline",
                 "Take an extra rest day and monitor for illness")
    ELSE st

\* Poor sleep trend
sleepTrend(st, last7Days_, baseline_) ==
    IF Lt(avgSleepEff(last7Days_), Mul(baseline_.sleepEfficiency, Rat(9, 10)))
    THEN penalty(st, 20, "Sleep efficiency has been poor",
                 "Focus on sleep hygiene: consistent bedtime, cool dark room")
    ELSE st

\* High stress + low mood/energy
stressCombo(st, last7Days_) ==
    IF /\ Gt(avgStress(last7Days_), Num(70))
       /\ (Lt(avgMood(last7Days_), Num(3)) \/ Lt(avgEnergy(last7Days_), Num(3)))
    THEN penalty(st, 25, "High stress combined with low mood and energy",
                 "Schedule mental health break, practice mindfulness, talk to someone")
    ELSE st

\* riskScore, rationale and actions after the four rules
penalties(last7Days_, baseline_) ==
    LET s0 == [riskScore |-> 0, rationale |-> <<>>, actions |-> <<>>]
        s1 == hrvTrend(s0, last7Days_, baseline_)
        s2 == hrElevated(s1, last7Days_, baseline_)
        s3 == sleepTrend(s2, last7Days_, baseline_)
    IN stressCombo(s3, last7Days_)

levelOf_strict(riskScore_) ==
    IF riskScore_ > 50 THEN "Red"
    ELSE IF riskScore_ >= 25 THEN "Yellow"
    ELSE "Green"
\* the level chosen from riskScore
levelOf(riskScore_) ==
    IF riskScore_ >= 50 THEN "Red"
    ELSE IF riskScore_ >= 25 THEN "Yellow"
    ELSE "Green"

finish_consultFromYellow(st) ==
    LET level == levelOf(st.riskScore)
        acts == IF st.riskScore >= 25
                THEN Append(st.actions, "Consider consulting a healthcare professional")
                ELSE st.actions
    IN IF level = "Green"
       THEN [level |-> level,
             rationale |-> Append(st.rationale, "All key recovery markers are stable"),
             actions |-> Append(acts,
                             "Keep up your current balance of training and recovery")]
       ELSE [level |-> level, rationale |-> st.rationale, actions |-> acts]
\* the level, the entries added for Red and for Green, and the returned object
finish(st) ==
    LET level == levelOf(st.riskScore)
        acts == IF level = "Red"
                THEN Append(st.actions, "Consider consulting a healthcare professional")
                ELSE st.actions
    IN IF level = "Green"
       THEN [level |-> level,
             rationale |-> Append(st.rationale, "All key recovery markers are stable"),
             actions |-> Append(acts,
                             "Keep up your current balance of training and recovery")]
       ELSE [level |-> level, rationale |-> st.rationale, actions |-> acts]

computeBurnoutRisk(last7Days_, baseline_) == finish(penalties(last7Days_, baseline_))

----------------------------------------------------------------------------
(* Number formatting *)

\* Math.abs(a)
MathAbs(a) == Rat(IF a.num < 0 THEN -a.num ELSE a.num, a.den)

RECURSIVE Pow10(_)
Pow10(k) == IF k = 0 THEN 1 ELSE 10 * Pow10(k - 1)

\* a.toFixed(digits): the numeral shown, as its sign and the count of units of
\* 10^-digits after rounding half away from zero; "NaN" and "Infinity" are
\* printed as such
toFixed(a, digits) ==
    IF a.den = 0
    THEN [text |-> IF a.num = 0 THEN "NaN"
                   ELSE IF a.num > 0 THEN "Infinity" ELSE "-Infinity",
          negative |-> FALSE, units |-> 0, digits |-> digits]
    ELSE LET m == MathAbs(a)
         IN [text |-> "decimal",
             negative |-> a.num < 0,
             units |-> (2 * m.num * Pow10(digits) + m.den) \div (2 * m.den),
             digits |-> digits]

----------------------------------------------------------------------------
(* detectAnomalies *)

\* ((today.restingHr - baseline.restingHr) / baseline.restingHr) * 100
detect_hrDelta(today_, baseline_) ==
    Mul(Div(Sub(Num(today_.restingHr), baseline_.restingHr), baseline_.restingHr),
        Num(100))

\* ((today.hrv - baseline.hrv) / baseline.hrv) * 100
detect_hrvDelta(today_, baseline_) ==
    Mul(Div(Sub(Num(today_.hrv), baseline_.hrv), baseline_.hrv), Num(100))

\* ((today.sleepEfficiency - baseline.sleepEfficiency) / baseline.sleepEfficiency) * 100
sleepEffDelta(today_, baseline_) ==
    Mul(Div(Sub(Num(today_.sleepEfficiency), baseline_.sleepEfficiency),
            baseline_.sleepEfficiency),
        Num(100))

\* Resting HR spike
hrSpike(list, today_, baseline_) ==
    IF Gt(detect_hrDelta(today_, baseline_), Num(10))
    THEN Append(list,
            [metric |-> "Resting Heart Rate",
             deviation |-> <<toFixed(detect_hrDelta(today_, baseline_), 1),
                             "% above baseline">>,
             cause |-> "Possible overtraining, stress, or early illness",
             suggestion |-> "Rest today, hydrate, monitor body temperature"])
    ELSE list

hrvDrop_flipped(list, today_, baseline_) ==
    IF Gt(detect_hrvDelta(today_, baseline_), Num(-15))
    THEN Append(list,
            [metric |-> "Heart Rate Variability",
             deviation |-> <<toFixed(MathAbs(detect_hrvDelta(today_, baseline_)), 1),
                             "% below baseline">>,
             cause |-> "High stress, insufficient recovery, or poor sleep",
             suggestion |->
                 "Switch to light activity (e.g., 20min walk), prioritize sleep tonight"])
    ELSE list
\* HRV drop
hrvDrop(list, today_, baseline_) ==
    IF Lt(detect_hrvDelta(today_, baseline_), Num(-15))
    THEN Append(list,
            [metric |-> "Heart Rate Variability",
             deviation |-> <<toFixed(MathAbs(detect_hrvDelta(today_, baseline_)), 1),
                             "% below baseline">>,
             cause |-> "High stress, insufficient recovery, or poor sleep",
             suggestion |->
                 "Switch to light activity (e.g., 20min walk), prioritize sleep tonight"])
    ELSE list

\* Sleep efficiency drop
sleepEffDrop(list, today_, baseline_) ==
    IF Lt(sleepEffDelta(today_, baseline_), Num(-10))
    THEN Append(list,
            [metric |-> "Sleep Efficiency",
             deviation |-> <<toFixed(MathAbs(sleepEffDelta(today_, baseline_)), 1),
                             "% below baseline">>,
             cause |-> "Stress, caffeine late in day, or environment issues",
             suggestion |->
                 "Review sleep hygiene: avoid screens 1hr before bed, cool room, consistent schedule"])
    ELSE list

detectAnomalies_hrvFirst(today_, baseline_) ==
    sleepEffDrop(hrSpike(hrvDrop(<<>>, today_, baseline_), today_, baseline_),
                 today_, baseline_)
detectAnomalies(today_, baseline_) ==
    sleepEffDrop(hrvDrop(hrSpike(<<>>, today_, baseline_), today_, baseline_),
                 today_, baseline_)

----------------------------------------------------------------------------
(* Strings: a string is the sequence of its characters *)

UpperCaseLetters == <<"A", "B", "C", "D", "E", "F", "G", "H", "I", "J", "K", "L", "M">>
    \o <<"N", "O", "P", "Q", "R", "S", "T", "U", "V", "W", "X", "Y", "Z">>
LowerCaseLetters == <<"a", "b", "c", "d", "e", "f", "g", "h", "i", "j", "k", "l", "m">>
    \o <<"n", "o", "p", "q", "r", "s", "t", "u", "v", "w", "x", "y", "z">>

\* String.prototype.toLowerCase
toLowerCase(str) ==
    [i \in 1..Len(str) |->
        IF \E k \in 1..26 : UpperCaseLetters[k] = str[i]
        THEN LowerCaseLetters[CHOOSE k \in 1..26 : UpperCaseLetters[k] = str[i]]
        ELSE str[i]]

\* String.prototype.includes
includes(str, sub) ==
    \E i \in 0..(Len(str) - Len(sub)) : SubSeq(str, i + 1, i + Len(sub)) = sub

----------------------------------------------------------------------------
(* simulateWhatIf; sleepDelta is in tenths of an hour *)

WhatIf(readinessDelta, sleepDelta, recoveryDelta, explanation) ==
    [readinessDelta |-> readinessDelta, sleepDelta |-> sleepDelta,
     recoveryDelta |-> recoveryDelta, explanation |-> explanation]

option_asTyped(optionLabel_) == optionLabel_
\* const option = optionLabel.toLowerCase()
option(optionLabel_) == toLowerCase(optionLabel_)

\* the if / else-if chain over option
whatIfBranch(opt) ==
    IF includes(opt, <<"z", "o", "n", "e", "-", "2">>) \/ includes(opt, <<"z", "o", "n", "e", " ", "2">>)
    THEN WhatIf(-5, 0, 5,
        "Zone-2 cardio improves aerobic base without taxing recovery. Minimal impact on tomorrow's readiness.")
    ELSE IF includes(opt, <<"h", "i", "i", "t">>)
    THEN WhatIf(-15, -5, -10,
        "HIIT is demanding. Expect lower readiness tomorrow. Requires 48hr recovery.")
    ELSE IF includes(opt, <<"s", "t", "r", "e", "n", "g", "t", "h">>)
    THEN WhatIf(-10, 0, -5,
        "Strength training causes muscle fatigue. Moderate impact on readiness. Good if well-rested.")
    ELSE IF includes(opt, <<"r", "e", "s", "t">>)
    THEN WhatIf(10, 5, 15,
        "Full rest accelerates recovery. Expect improved readiness and mood tomorrow.")
    ELSE IF includes(opt, <<"e", "x", "t", "r", "a", " ", "s", "l", "e", "e", "p">>) \/ includes(opt, <<"e", "a", "r", "l", "y", " ", "b", "e", "d">>)
    THEN WhatIf(12, 10, 20,
        "Extra sleep is the #1 recovery tool. Boosts HRV, lowers resting HR, improves mood.")
    ELSE WhatIf(-8, 0, 0, "Moderate activity. Slight impact on readiness.")

simulateWhatIf_tired(optionLabel_, baseline_, today_) ==
    IF today_.energyScore <= 2
    THEN [whatIfBranch(option(optionLabel_)) EXCEPT !.readinessDelta = @ - 5]
    ELSE whatIfBranch(option(optionLabel_))
simulateWhatIf(optionLabel_, baseline_, today_) == whatIfBranch(option(optionLabel_))

----------------------------------------------------------------------------
(* Recommendations of the agents. An id is the tuple of the parts its
   template string joins with "-"; createdAt is the clock reading whose ISO
   form the code stores. *)

ActionOf(label, kind) == [label |-> label, kind |-> kind]

Recommendation(id, createdAt, agent, type, title, rationale, priority, actions) ==
    [id |-> id, createdAt |-> createdAt, agent |-> agent, type |-> type,
     title |-> title, rationale |-> rationale, priority |-> priority,
     actions |-> actions]

----------------------------------------------------------------------------
(* AWSBedrockAgentExample *)

\* fallbackRecommendations(context), with Date.now() reading now_
fallbackRecommendations(today_, baseline_, now_) ==
    IF Lt(Num(today_.hrv), Mul(baseline_.hrv, Rat(9, 10)))
    THEN <<Recommendation(<<"AWSBedrockAgentExample", "fallback", now_>>, now_,
               "AWSBedrockAgent", "alert", "HRV significantly below baseline",
               "Your HRV is low, indicating possible overtraining or stress. Consider a rest day.",
               "high",
               <<ActionOf("Take Rest Day", "accept"), ActionOf("Ignore", "reject")>>)>>
    ELSE <<>>

----------------------------------------------------------------------------
(* FitnessCoachAgent. An analyze takes, besides the context, the readings of
   the clock, one per recommendation pushed, and the value of Math.random() *)

\* Math.random() > 0.5 ? "HIIT" : "Strength"
intensity(random) == IF Gt(random, Rat(1, 2)) THEN "HIIT" ELSE "Strength"

restDay(now_) ==
    Recommendation(<<"fitness", now_>>, now_, "FitnessCoachAgent", "training",
        "Recovery Day Recommended",
        "Your body needs rest. Light walking or stretching only today.",
        "high",
        <<ActionOf("Accept Rest Day", "accept"), ActionOf("Light Activity", "snooze")>>)

trainingSession(now_, random) ==
    Recommendation(<<"fitness", now_>>, now_, "FitnessCoachAgent", "training",
        <<intensity(random), " Session Today">>,
        "You're well-recovered. Great day for a quality session.",
        "medium",
        <<ActionOf("Start Workout", "accept"), ActionOf("Do Later", "snooze")>>)

FitnessCoachAgent_analyze_trainingFirst(today_, last7Days_, baseline_, clock, random) ==
    LET readiness_ == computeReadiness(today_, baseline_, last7Days_)
        burnout_ == computeBurnoutRisk(last7Days_, baseline_)
    IN IF readiness_.score >= 80 /\ today_.trainingLoad < 60
       THEN <<trainingSession(clock[1], random)>>
       ELSE IF burnout_.level = "Red" \/ readiness_.score < 40
       THEN <<restDay(clock[1])>>
       ELSE <<>>
\* FitnessCoachAgent.analyze(context)
FitnessCoachAgent_analyze(today_, last7Days_, baseline_, clock, random) ==
    LET readiness_ == computeReadiness(today_, baseline_, last7Days_)
        burnout_ == computeBurnoutRisk(last7Days_, baseline_)
    IN IF burnout_.level = "Red" \/ readiness_.score < 40
       THEN <<restDay(clock[1])>>
       ELSE IF readiness_.score >= 80 /\ today_.trainingLoad < 60
       THEN <<trainingSession(clock[1], random)>>
       ELSE <<>>

----------------------------------------------------------------------------
(* BurnoutGuardianAgent. The k-th recommendation pushed reads clock[k] *)

RECURSIVE join(_, _)
\* Array.prototype.join: the elements, with the separator between neighbours
join(arr, separator) ==
    IF Len(arr) = 0 THEN <<>>
    ELSE IF Len(arr) = 1 THEN <<arr[1]>>
    ELSE <<arr[1], separator>> \o join(Tail(arr), separator)

\* Burnout risk alerts
burnoutAlert(list, burnout_, clock) ==
    IF burnout_.level = "Yellow" \/ burnout_.level = "Red"
    THEN Append(list,
            Recommendation(<<"burnout", clock[Len(list) + 1]>>, clock[Len(list) + 1],
                "BurnoutGuardianAgent", "stress",
                <<"Burnout Risk: ", burnout_.level>>,
                join(burnout_.rationale, ". "),
                "high",
                <<ActionOf("View Actions", "accept"), ActionOf("Dismiss", "reject")>>))
    ELSE list

\* Stress alerts
stressAlert(list, today_, clock) ==
    IF today_.stressScore > 70
    THEN Append(list,
            Recommendation(<<"stress", clock[Len(list) + 1]>>, clock[Len(list) + 1],
                "BurnoutGuardianAgent", "stress",
                "Stress Relief Needed",
                "Your stress is elevated. Try a 5-min breathing exercise.",
                "medium",
                <<ActionOf("Start Breathing", "accept"), ActionOf("Later", "snooze")>>))
    ELSE list

RECURSIVE anomalyAlerts_noIndex(_, _, _, _)
anomalyAlerts_noIndex(list, anomalies_, idx, clock) ==
    IF idx >= Len(anomalies_) THEN list
    ELSE anomalyAlerts_noIndex(
            Append(list,
                [id |-> <<"anomaly", clock[Len(list) + 1]>>,
                 createdAt |-> clock[Len(list) + 1],
                 agent |-> "BurnoutGuardianAgent",
                 type |-> "alert",
                 title |-> <<"Alert: ", anomalies_[idx + 1].metric>>,
                 rationale |-> <<anomalies_[idx + 1].deviation, ". ",
                                 anomalies_[idx + 1].cause, ". Suggestion: ",
                                 anomalies_[idx + 1].suggestion>>,
                 priority |-> "high"]),
            anomalies_, idx + 1, clock)

RECURSIVE anomalyAlerts(_, _, _, _)
\* anomalies.forEach((anomaly, idx) => recommendations.push(...)), from the
\* anomaly of index idx on; these recommendations have no actions
anomalyAlerts(list, anomalies_, idx, clock) ==
    IF idx >= Len(anomalies_) THEN list
    ELSE anomalyAlerts(
            Append(list,
                [id |-> <<"anomaly", clock[Len(list) + 1], idx>>,
                 createdAt |-> clock[Len(list) + 1],
                 agent |-> "BurnoutGuardianAgent",
                 type |-> "alert",
                 title |-> <<"Alert: ", anomalies_[idx + 1].metric>>,
                 rationale |-> <<anomalies_[idx + 1].deviation, ". ",
                                 anomalies_[idx + 1].cause, ". Suggestion: ",
                                 anomalies_[idx + 1].suggestion>>,
                 priority |-> "high"]),
            anomalies_, idx + 1, clock)

BurnoutGuardianAgent_analyze_stressFirst(today_, last7Days_, baseline_, clock) ==
    LET burnout_ == computeBurnoutRisk(last7Days_, baseline_)
        anomalies_ == detectAnomalies(today_, baseline_)
    IN anomalyAlerts(burnoutAlert(stressAlert(<<>>, today_, clock), burnout_, clock),
                     anomalies_, 0, clock)
\* BurnoutGuardianAgent.analyze(context)
BurnoutGuardianAgent_analyze(today_, last7Days_, baseline_, clock) ==
    LET burnout_ == computeBurnoutRisk(last7Days_, baseline_)
        anomalies_ == detectAnomalies(today_, baseline_)
    IN anomalyAlerts(stressAlert(burnoutAlert(<<>>, burnout_, clock), today_, clock),
                     anomalies_, 0, clock)

----------------------------------------------------------------------------
(* SleepAgent. Hours are in tenths, so the 3 of the source is Num(30) and
   the hours shown are the debt divided by 10 *)

\* baseline.sleepHours * 7 - last7Days.reduce((sum, m) => sum + m.sleepHours, 0)
sleepDebt(last7Days_, baseline_) ==
    Sub(Mul(baseline_.sleepHours, Num(7)),
        Num(reduceField(last7Days_, "sleepHours", 0)))

\* last7Days.reduce((sum, m) => sum + m.sleepEfficiency, 0) / last7Days.length
avgSleepEfficiency(last7Days_) ==
    Div(Num(reduceField(last7Days_, "sleepEfficiency", 0)), Num(Len(last7Days_)))

sleepDebtAlert_inclusive(list, last7Days_, baseline_, clock) ==
    IF ~Lt(sleepDebt(last7Days_, baseline_), Num(30))
    THEN Append(list,
            Recommendation(<<"sleep", clock[Len(list) + 1]>>, clock[Len(list) + 1],
                "SleepAgent", "sleep",
                "Sleep Debt Detected",
                <<"You're ", toFixed(Div(sleepDebt(last7Days_, baseline_), Num(10)), 1),
                  "hrs behind on sleep this week. This affects recovery and performance.">>,
                "high",
                <<ActionOf("Set Early Bedtime", "accept"),
                  ActionOf("Remind Me Later", "snooze")>>))
    ELSE list
\* if (sleepDebt > 3)
sleepDebtAlert(list, last7Days_, baseline_, clock) ==
    IF Gt(sleepDebt(last7Days_, baseline_), Num(30))
    THEN Append(list,
            Recommendation(<<"sleep", clock[Len(list) + 1]>>, clock[Len(list) + 1],
                "SleepAgent", "sleep",
                "Sleep Debt Detected",
                <<"You're ", toFixed(Div(sleepDebt(last7Days_, baseline_), Num(10)), 1),
                  "hrs behind on sleep this week. This affects recovery and performance.">>,
                "high",
                <<ActionOf("Set Early Bedtime", "accept"),
                  ActionOf("Remind Me Later", "snooze")>>))
    ELSE list

\* Check sleep efficiency
sleepQualityAlert(list, last7Days_, clock) ==
    IF Lt(avgSleepEfficiency(last7Days_), Num(80))
    THEN Append(list,
            Recommendation(<<"sleep", "efficiency", clock[Len(list) + 1]>>,
                clock[Len(list) + 1],
                "SleepAgent", "sleep",
                "Poor Sleep Quality",
                <<"Your average sleep efficiency is ",
                  toFixed(avgSleepEfficiency(last7Days_), 0),
                  "%. Try improving your sleep hygiene.">>,
                "medium",
                <<ActionOf("View Tips", "accept"), ActionOf("Dismiss", "reject")>>))
    ELSE list

\* SleepAgent.analyze(context)
SleepAgent_analyze(last7Days_, baseline_, clock) ==
    sleepQualityAlert(sleepDebtAlert(<<>>, last7Days_, baseline_, clock),
                      last7Days_, clock)

----------------------------------------------------------------------------
(* AgentOrchestrator. A registered agent is {id, async, throws}: whether its
   analyze suspends, and whether it fails (a synchronous throw, or a
   rejection). The run of analyze keeps, per agent in registration order, its
   result: "pending", "failed" or the recommendations returned. *)

\* the recommendations a non-failing agent returns: two, tagged with its id
recommendationsOf(agent) == <<[agent |-> agent.id, n |-> 1], [agent |-> agent.id, n |-> 2]>>

\* registerAgent(agent): the registry maps id to agent, in registration order
registerAgent(agents, agent) == Append(agents, agent)

\* unregisterAgent(id)
unregisterAgent(agents, id) == SelectSeq(agents, LAMBDA a : a.id /= id)

\* the call of one agent's analyze inside the orchestrator's try / catch
invokeAgent(agent) ==
    IF agent.async THEN "pending"
    ELSE IF agent.throws THEN "failed"
    ELSE recommendationsOf(agent)

\* the settling of a suspended analyze: a rejection is caught
settleAgent(agent) ==
    IF agent.throws THEN "failed" ELSE recommendationsOf(agent)

RECURSIVE concatResults(_, _)
\* the results from index i on, concatenated; a failed agent contributes none
concatResults(results, i) ==
    IF i > Len(results) THEN <<>>
    ELSE (IF results[i] = "failed" THEN <<>> ELSE results[i])
             \o concatResults(results, i + 1)

RECURSIVE concatUntilFailure(_, _)
concatUntilFailure(results, i) ==
    IF i > Len(results) \/ results[i] = "failed" THEN <<>>
    ELSE results[i] \o concatUntilFailure(results, i + 1)

RECURSIVE concatCompleted(_, _, _)
concatCompleted(results, completed, k) ==
    IF k > Len(completed) THEN <<>>
    ELSE (IF results[completed[k]] = "failed" THEN <<>> ELSE results[completed[k]])
             \o concatCompleted(results, completed, k + 1)

merge_stopAtFailure(orch) == concatUntilFailure(orch.results, 1)
merge_completionOrder(orch) == concatCompleted(orch.results, orch.completed, 1)
\* the merged result, once every agent has settled: registration order
merge(orch) == concatResults(orch.results, 1)

----------------------------------------------------------------------------
(* PullToRefresh. pullDistance and isRefreshing are the component's state
   after the updates queued so far; rendered holds the values of the last
   render, which are the ones the handlers close over. startY is a ref,
   scrollTop the scroll position of the element, inFlight the number of
   onRefresh() promises not yet settled. *)

threshold == 80

MountedPullToRefresh ==
    [pullDistance |-> 0, isRefreshing |-> FALSE, startY |-> 0, scrollTop |-> 0,
     rendered |-> [pullDistance |-> 0, isRefreshing |-> FALSE],
     inFlight |-> 0, settled |-> "none"]

\* a render: the handlers are re-created over the current state
render(p) ==
    [p EXCEPT !.rendered = [pullDistance |-> p.pullDistance,
                            isRefreshing |-> p.isRefreshing]]

handleTouchStart(p, clientY) ==
    IF p.scrollTop = 0 THEN [p EXCEPT !.startY = clientY] ELSE p

\* threshold * 1.5 is 120
handleTouchMove(p, clientY) ==
    IF p.rendered.isRefreshing \/ p.scrollTop > 0 THEN p
    ELSE LET distance == MathMax(0, clientY - p.startY)
         IN IF distance > 0
            THEN [p EXCEPT !.pullDistance = MathMin(distance, (threshold * 3) \div 2)]
            ELSE p

handleTouchEnd_noGuard(p) ==
    IF p.rendered.pullDistance > threshold
    THEN [p EXCEPT !.isRefreshing = TRUE, !.inFlight = @ + 1]
    ELSE [p EXCEPT !.pullDistance = 0]
\* handleTouchEnd up to its await: onRefresh() has been called
handleTouchEnd(p) ==
    IF p.rendered.pullDistance > threshold /\ ~p.rendered.isRefreshing
    THEN [p EXCEPT !.isRefreshing = TRUE, !.inFlight = @ + 1]
    ELSE [p EXCEPT !.pullDistance = 0]

\* the finally block of handleTouchEnd, when onRefresh() settles
refreshSettled(p, outcome) ==
    [p EXCEPT !.isRefreshing = FALSE, !.pullDistance = 0,
              !.inFlight = @ - 1, !.settled = outcome]

----------------------------------------------------------------------------
(* BreathingExercise. Times are in seconds: the interval callback takes
   Math.floor(ms / 1000) of every difference it uses. The record holds the
   props (type, and duration as durationSeconds = duration * 60), the state,
   the two refs, the sessions handed to saveBreathingSession, and running:
   the seconds the session has been active since its start or last reset. *)

patterns ==
    ("coherent" :> [inhale |-> 5, hold |-> 0, exhale |-> 5, pause |-> 0])
    @@ ("box" :> [inhale |-> 4, hold |-> 4, exhale |-> 4, pause |-> 4])
    @@ ("478" :> [inhale |-> 4, hold |-> 7, exhale |-> 8, pause |-> 0])

\* the state after mount
MountedBreathingExercise(type, durationSeconds) ==
    [type |-> type, durationSeconds |-> durationSeconds,
     isActive |-> FALSE, phase |-> "inhale", countdown |-> 5,
     timeRemaining |-> durationSeconds, cycleCount |-> 0,
     startTimeRef |-> 0, phaseStartRef |-> 0,
     saved |-> <<>>, running |-> 0, toggles |-> 0]

getNextPhase_noSkip(currentPattern, current) ==
    IF current = "inhale" THEN "hold"
    ELSE IF current = "hold" THEN "exhale"
    ELSE IF current = "exhale" THEN "pause"
    ELSE "inhale"
\* Get next phase
getNextPhase(currentPattern, current) ==
    IF current = "inhale" /\ currentPattern.hold > 0 THEN "hold"
    ELSE IF (current = "inhale" /\ currentPattern.hold = 0) \/ current = "hold"
    THEN "exhale"
    ELSE IF current = "exhale" /\ currentPattern.pause > 0 THEN "pause"
    ELSE "inhale"

\* the first half of the interval callback at the clock reading now_: the
\* countdown, or the move to the next phase
phaseStep(b, now_) ==
    LET currentPattern == patterns[b.type]
        elapsed == now_ - b.phaseStartRef
        remaining == currentPattern[b.phase] - elapsed
        nextPhase == getNextPhase(currentPattern, b.phase)
    IN IF remaining > 0
       THEN [b EXCEPT !.countdown = remaining]
       ELSE [b EXCEPT !.cycleCount = IF nextPhase = "inhale" THEN @ + 1 ELSE @,
                      !.phase = nextPhase,
                      !.phaseStartRef = now_,
                      !.countdown = currentPattern[nextPhase]]

\* the second half: the total time remaining and, when it is 0, the end of
\* the session; cycleCount_ is the cycleCount the callback closed over
completionStep(b, now_, cycleCount_) ==
    LET totalElapsed == now_ - b.startTimeRef
        newTimeRemaining == MathMax(0, b.durationSeconds - totalElapsed)
    IN IF newTimeRemaining = 0
       THEN [b EXCEPT !.timeRemaining = newTimeRemaining,
                      !.isActive = FALSE,
                      !.saved = Append(@, [id |-> <<b.type, now_>>,
                                           type |-> b.type,
                                           duration |-> b.durationSeconds,
                                           completedAt |-> now_,
                                           cyclesCompleted |-> cycleCount_])]
       ELSE [b EXCEPT !.timeRemaining = newTimeRemaining]

\* the interval callback
intervalCallback(b, now_) == completionStep(phaseStep(b, now_), now_, b.cycleCount)

\* handleToggle at the clock reading now_
handleToggle(b, now_) ==
    IF ~b.isActive
    THEN [b EXCEPT !.startTimeRef = now_, !.phaseStartRef = now_,
                   !.countdown = patterns[b.type][b.phase],
                   !.isActive = TRUE, !.toggles = @ + 1]
    ELSE [b EXCEPT !.isActive = FALSE, !.toggles = @ + 1]

handleReset(b) ==
    [b EXCEPT !.isActive = FALSE, !.phase = "inhale",
              !.timeRemaining = b.durationSeconds, !.cycleCount = 0,
              !.countdown = patterns[b.type].inhale,
              !.startTimeRef = 0, !.phaseStartRef = 0, !.running = 0]

----------------------------------------------------------------------------
(* parseICalendar. Text is a sequence of one-character strings; an absent
   (undefined) string property of an event is the value undefined, an absent
   allDay is FALSE, and currentEvent is <<>> for null or <<event>>. *)

undefined == <<"undefined">>

WhiteSpace == {" ", "\t", "\n", "\r"}

\* String.prototype.split(/\r\n|\n|\r/): a separator begins at every "\r"
\* and at every "\n" that does not follow a "\r"; the pieces are what lies
\* between one separator and the next
split(str) ==
    LET begins == {i \in 1..Len(str) :
                       \/ str[i] = "\r"
                       \/ str[i] = "\n" /\ (i = 1 \/ str[i - 1] # "\r")}
        nth(k) == CHOOSE i \in begins : Cardinality({j \in begins : j < i}) = k - 1
        after(i) == IF str[i] = "\r" /\ i < Len(str) /\ str[i + 1] = "\n"
                    THEN i + 2 ELSE i + 1
        n == Cardinality(begins)
    IN [k \in 1..(n + 1) |->
           SubSeq(str,
                  IF k = 1 THEN 1 ELSE after(nth(k - 1)),
                  IF k = n + 1 THEN Len(str) ELSE nth(k) - 1)]

\* String.prototype.trim
trim(str) ==
    LET kept == {i \in 1..Len(str) : str[i] \notin WhiteSpace}
    IN IF kept = {} THEN <<>>
       ELSE SubSeq(str, CHOOSE i \in kept : \A j \in kept : i <= j,
                        CHOOSE i \in kept : \A j \in kept : i >= j)

\* String.prototype.startsWith
startsWith(str, prefix) ==
    Len(str) >= Len(prefix) /\ SubSeq(str, 1, Len(prefix)) = prefix

\* String.prototype.indexOf of one character (positions from 0)
indexOf(str, char) ==
    LET found == {i \in 1..Len(str) : str[i] = char}
    IN IF found = {} THEN -1
       ELSE (CHOOSE i \in found : \A j \in found : i <= j) - 1

\* String.prototype.substring(start, end) and substring(start), for
\* 0 <= start <= end
substring(str, start, end) ==
    SubSeq(str, MathMin(start, Len(str)) + 1, MathMin(end, Len(str)))

substringFrom(str, start) == substring(str, start, Len(str))

\* String.prototype.replace(pattern, replacement) with a string pattern:
\* the first occurrence only
replace(str, pattern, replacement) ==
    LET found == {i \in 1..(Len(str) - Len(pattern) + 1) :
                      SubSeq(str, i, i + Len(pattern) - 1) = pattern}
    IN IF found = {} THEN str
       ELSE LET i == CHOOSE i \in found : \A j \in found : i <= j
            IN SubSeq(str, 1, i - 1) \o replacement
                   \o SubSeq(str, i + Len(pattern), Len(str))

\* String.prototype.replace(/pattern/g, replacement): every occurrence,
\* left to right
RECURSIVE replaceAll(_, _, _)
replaceAll(str, pattern, replacement) ==
    IF Len(str) < Len(pattern) THEN str
    ELSE IF SubSeq(str, 1, Len(pattern)) = pattern
    THEN replacement
             \o replaceAll(SubSeq(str, Len(pattern) + 1, Len(str)), pattern, replacement)
    ELSE <<str[1]>> \o replaceAll(SubSeq(str, 2, Len(str)), pattern, replacement)

parseICalDateTime(dateTimeStr) ==
    LET cleaned == replace(dateTimeStr, <<"Z">>, <<>>)
        year == substring(cleaned, 0, 4)
        month == substring(cleaned, 4, 6)
        day == substring(cleaned, 6, 8)
        hour == substring(cleaned, 9, 11)
        minute == substring(cleaned, 11, 13)
        second == substring(cleaned, 13, 15)
    IN year \o <<"-">> \o month \o <<"-">> \o day \o <<"T">>
           \o hour \o <<":">> \o minute \o <<":">> \o second

parseICalDate(dateStr) ==
    LET year == substring(dateStr, 0, 4)
        month == substring(dateStr, 4, 6)
        day == substring(dateStr, 6, 8)
    IN year \o <<"-">> \o month \o <<"-">> \o day

\* { id: crypto.randomUUID() }: the id is that of the line the block begins at
newEvent(i) ==
    [id |-> <<"uuid", i>>, title |-> undefined, start |-> undefined,
     end |-> undefined, description |-> undefined, location |-> undefined,
     allDay |-> FALSE]

\* a string property that is set and not ''
truthy(value) == value # undefined /\ value # <<>>

\* the last of the continuation lines that follow line i
RECURSIVE lastContinuation(_, _)
lastContinuation(lines, i) ==
    IF i + 1 <= Len(lines)
       /\ (startsWith(lines[i + 1], <<" ">>) \/ startsWith(lines[i + 1], <<"\t">>))
    THEN lastContinuation(lines, i + 1)
    ELSE i

\* lines[i].trim() followed by the trimmed lines up to line j
RECURSIVE unfold(_, _, _)
unfold(lines, i, j) ==
    IF j = i THEN trim(lines[i])
    ELSE unfold(lines, i, j - 1) \o trim(lines[j])

\* the else-if chain over the field of a line inside a VEVENT block
property(event, line) ==
    LET colonIndex == indexOf(line, ":")
        field == substring(line, 0, colonIndex)
        value == substringFrom(line, colonIndex + 1)
    IN IF colonIndex = -1 THEN event
       ELSE IF startsWith(field, <<"S", "U", "M", "M", "A", "R", "Y">>)
       THEN [event EXCEPT !.title = value]
       ELSE IF startsWith(field, <<"D", "T", "S", "T", "A", "R", "T">>)
       THEN [event EXCEPT !.start = parseICalDateTime(value)]
       ELSE IF startsWith(field, <<"D", "T", "E", "N", "D">>)
       THEN [event EXCEPT !.end = parseICalDateTime(value)]
       ELSE IF startsWith(field, <<"D", "E", "S", "C", "R", "I", "P", "T", "I", "O", "N">>)
       THEN [event EXCEPT !.description =
                 replaceAll(replaceAll(value, <<"\\", "n">>, <<"\n">>),
                            <<"\\", ",">>, <<",">>)]
       ELSE IF startsWith(field, <<"L", "O", "C", "A", "T", "I", "O", "N">>)
       THEN [event EXCEPT !.location = value]
       ELSE IF field = <<"D", "T", "S", "T", "A", "R", "T", ";", "V", "A", "L", "U", "E", "=", "D", "A", "T", "E">>
       THEN [event EXCEPT !.start = parseICalDate(value), !.allDay = TRUE]
       ELSE event

\* the for loop from line i on
RECURSIVE parseFrom(_, _, _, _)
parseFrom(lines, i, currentEvent, events) ==
    IF i > Len(lines) THEN events
    ELSE LET j == lastContinuation(lines, i)
             line == unfold(lines, i, j)
         IN IF line = <<"B", "E", "G", "I", "N", ":", "V", "E", "V", "E", "N", "T">>
            THEN parseFrom(lines, j + 1, <<newEvent(i)>>, events)
            ELSE IF line = <<"E", "N", "D", ":", "V", "E", "V", "E", "N", "T">> /\ currentEvent # <<>>
            THEN parseFrom(lines, j + 1, <<>>,
                           IF truthy(currentEvent[1].title) /\ truthy(currentEvent[1].start)
                           THEN Append(events, currentEvent[1])
                           ELSE events)
            ELSE IF currentEvent # <<>>
            THEN parseFrom(lines, j + 1, <<property(currentEvent[1], line)>>, events)
            ELSE parseFrom(lines, j + 1, currentEvent, events)

parseICalendar(icsContent) == parseFrom(split(icsContent), 1, <<>>, <<>>)

----------------------------------------------------------------------------
(* Values of the variables a specification does not use *)

NoDay == Day(0, 0, 0, 0, 0, 0, 0, 0)
NoBaseline == [hrv |-> Rat(0, 0), restingHr |-> Rat(0, 0), sleepHours |-> Rat(0, 0),
               sleepEfficiency |-> Rat(0, 0), stressScore |-> Rat(0, 0)]
NoReadiness == [score |-> -1, explanation |-> <<>>]
NoBurnout == [level |-> "none", rationale |-> <<>>, actions |-> <<>>]
NoSimulation == [readinessDelta |-> 0, sleepDelta |-> 0, recoveryDelta |-> 0,
                 explanation |-> ""]

\* the variables of extVars before any call
ExtInit ==
    /\ anomalies = <<>>
    /\ optionLabel = <<>>
    /\ simulation = NoSimulation
    /\ recommendations = <<>>
    /\ now = 0
    /\ invoke = "idle"
    /\ rejected = FALSE

NoOrchestrator ==
    [agents |-> <<>>, pc |-> "idle", results |-> <<>>, completed |-> <<>>,
     merged |-> <<>>, escaped |-> FALSE]
NoPullToRefresh == MountedPullToRefresh
NoBreathingExercise == MountedBreathingExercise("coherent", 300)
NoCalendar == [blocks |-> <<>>, icsContent |-> <<>>, events |-> <<>>]

\* the variables of compVars before any use
CompInit ==
    /\ history = <<>>
    /\ orchestrator = NoOrchestrator
    /\ pullToRefresh = NoPullToRefresh
    /\ breathingExercise = NoBreathingExercise
    /\ calendar = NoCalendar

----------------------------------------------------------------------------
(* Specification of computeBaseline: a history is drawn, then the call *)

InitBaseline ==
    /\ op = "init"
    /\ metrics \in Histories
    /\ today = NoDay
    /\ last7Days = <<>>
    /\ baseline = NoBaseline
    /\ readiness = NoReadiness
    /\ riskScore = 0
    /\ burnout = NoBurnout
    /\ ExtInit
    /\ CompInit

ComputeBaseline ==
    /\ op = "init"
    /\ op' = "computeBaseline"
    /\ baseline' = computeBaseline(metrics)
    /\ UNCHANGED <<metrics, today, last7Days, readiness, riskScore, burnout>>
    /\ UNCHANGED extVars
    /\ UNCHANGED compVars

NextBaseline == ComputeBaseline

SpecBaseline == InitBaseline /\ [][NextBaseline]_vars

----------------------------------------------------------------------------
(* Specification of computeReadiness: the arguments are drawn, then the call *)

\* the values of today's fields, on and around the thresholds of the rules
\* when measured against the default baseline
Todays ==
    {Day(h, r, sh, se, st, tl, mo, en) :
        h \in {48, 51, 57, 60, 66}, r \in {60, 63, 66, 69},
        sh \in {45, 60, 75}, se \in {70, 85, 100},
        st \in {50, 75, 76}, tl \in {0, 80, 81},
        mo \in {2, 3, 4}, en \in {2, 3, 4}}

\* baselines computeBaseline returns: the default one, a mean with fractional
\* fields, and the all-zero mean of a history of records without data
Baselines ==
    {computeBaseline(<<>>), computeBaseline(<<NormalDay, StrainedDay>>),
     computeBaseline(<<ZeroDay>>)}

\* the windows passed as computeReadiness's third argument
ReadinessWindows == {<<>>, <<StrainedDay, NormalDay>>}

InitReadiness ==
    /\ op = "init"
    /\ metrics = <<>>
    /\ today \in Todays
    /\ last7Days \in ReadinessWindows
    /\ baseline \in Baselines
    /\ readiness = NoReadiness
    /\ riskScore = 0
    /\ burnout = NoBurnout
    /\ ExtInit
    /\ CompInit

ComputeReadiness ==
    /\ op = "init"
    /\ op' = "computeReadiness"
    /\ readiness' = computeReadiness(today, baseline, last7Days)
    /\ UNCHANGED <<metrics, today, last7Days, baseline, riskScore, burnout>>
    /\ UNCHANGED extVars
    /\ UNCHANGED compVars

NextReadiness == ComputeReadiness

SpecReadiness == InitReadiness /\ [][NextReadiness]_vars

----------------------------------------------------------------------------
(* Specification of computeBurnoutRisk: the arguments are drawn, then the call *)

\* days on which one of the rules' metrics is off the default baseline (HRV
\* 20 % under it, resting HR 20 % over it, sleep efficiency 70), and a day
\* on which all are (with stress 100, mood 1 and energy 1)
LowHrvDay == Day(48, 60, 75, 85, 50, 0, 4, 4)
HighHrDay == Day(60, 72, 75, 85, 50, 0, 4, 4)
PoorSleepDay == Day(60, 60, 75, 70, 50, 0, 4, 4)
ExhaustedDay == Day(45, 70, 75, 70, 100, 0, 1, 1)

BurnoutDays == {NormalDay, LowHrvDay, HighHrDay, PoorSleepDay, ExhaustedDay}

\* the baselines passed to computeBurnoutRisk: the default one and a mean
\* with fractional fields
BurnoutBaselines == {computeBaseline(<<>>), computeBaseline(<<NormalDay, StrainedDay>>)}

\* every window of at most MaxWindow records, the empty one included
Windows == UNION {[1..n -> BurnoutDays] : n \in 0..MaxWindow}

InitBurnout ==
    /\ op = "init"
    /\ metrics = <<>>
    /\ today = NoDay
    /\ last7Days \in Windows
    /\ baseline \in BurnoutBaselines
    /\ readiness = NoReadiness
    /\ riskScore = 0
    /\ burnout = NoBurnout
    /\ ExtInit
    /\ CompInit

ComputeBurnoutRisk ==
    /\ op = "init"
    /\ op' = "computeBurnoutRisk"
    /\ riskScore' = penalties(last7Days, baseline).riskScore
    /\ burnout' = computeBurnoutRisk(last7Days, baseline)
    /\ UNCHANGED <<metrics, today, last7Days, baseline, readiness>>
    /\ UNCHANGED extVars
    /\ UNCHANGED compVars

NextBurnout == ComputeBurnoutRisk

SpecBurnout == InitBurnout /\ [][NextBurnout]_vars

----------------------------------------------------------------------------
(* Specification of detectAnomalies: the arguments are drawn, then the call *)

\* today's resting HR, HRV and sleep efficiency on and around the thresholds
\* of the three checks, the values of the integer baselines included
AnomalyTodays ==
    {Day(h, r, 75, se, 50, 0, 4, 4) :
        h \in {38, 45, 48, 51, 54, 60}, r \in {60, 66, 67, 70, 77, 78},
        se \in {63, 62, 70, 76, 77, 85}}

\* baselines computeBaseline returns: the default one, the mean of one
\* strained day (integers), a mean with fractional fields and the all-zero one
AnomalyBaselines ==
    {computeBaseline(<<>>), computeBaseline(<<StrainedDay>>),
     computeBaseline(<<NormalDay, StrainedDay>>), computeBaseline(<<ZeroDay>>)}

InitAnomalies ==
    /\ op = "init"
    /\ metrics = <<>>
    /\ today \in AnomalyTodays
    /\ last7Days = <<>>
    /\ baseline \in AnomalyBaselines
    /\ readiness = NoReadiness
    /\ riskScore = 0
    /\ burnout = NoBurnout
    /\ ExtInit
    /\ CompInit

DetectAnomalies ==
    /\ op = "init"
    /\ op' = "detectAnomalies"
    /\ anomalies' = detectAnomalies(today, baseline)
    /\ UNCHANGED <<metrics, today, last7Days, baseline, readiness, riskScore, burnout>>
    /\ UNCHANGED <<optionLabel, simulation, recommendations, now, invoke, rejected>>
    /\ UNCHANGED compVars

NextAnomalies == DetectAnomalies

SpecAnomalies == InitAnomalies /\ [][NextAnomalies]_vars

----------------------------------------------------------------------------
(* Specification of simulateWhatIf: the arguments are drawn, then the call *)

\* most parts a label is joined from
MaxParts == 2

\* the parts of a label: the keywords in several spellings, a word that holds
\* "rest" inside it, the words of a keyword with a word between them, and a
\* word without any keyword
LabelParts ==
    {<<"Z", "o", "n", "e", "-", "2">>,
     <<"Z", "O", "N", "E", " ", "2">>,
     <<"H", "I", "I", "T">>,
     <<"S", "t", "r", "e", "n", "g", "t", "h">>,
     <<"R", "e", "s", "t">>,
     <<"E", "x", "t", "r", "a", " ", "S", "l", "e", "e", "p">>,
     <<"e", "a", "r", "l", "y", " ", "b", "e", "d">>,
     <<"i", "n", "t", "e", "r", "e", "s", "t">>,
     <<"E", "x", "t", "r", "a", " ", "1", "h", "r", " ", "S", "l", "e", "e", "p">>,
     <<"W", "a", "l", "k">>}

RECURSIVE LabelsOf(_)
\* the labels joined, with a space, from exactly k parts
LabelsOf(k) ==
    IF k = 1 THEN LabelParts
    ELSE {a \o <<" ">> \o b : a \in LabelsOf(k - 1), b \in LabelParts}

\* the labels of the Simulate page's options, and the label of the example
SimulateOptions ==
    {<<"3", "0", "m", "i", "n", " ", "Z", "o", "n", "e", "-", "2", " ", "R", "u", "n">>,
     <<"3", "0", "m", "i", "n", " ", "H", "I", "I", "T", " ", "S", "e", "s", "s", "i", "o", "n">>,
     <<"4", "5", "m", "i", "n", " ", "S", "t", "r", "e", "n", "g", "t", "h", " ", "T", "r", "a", "i", "n", "i", "n", "g">>,
     <<"F", "u", "l", "l", " ", "R", "e", "s", "t", " ", "D", "a", "y">>,
     <<"E", "x", "t", "r", "a", " ", "1", "h", "r", " ", "S", "l", "e", "e", "p", " ", "T", "o", "n", "i", "g", "h", "t">>}
HiitSessionLabel == <<"H", "I", "I", "T", " ", "s", "e", "s", "s", "i", "o", "n">>

OptionLabels ==
    UNION {LabelsOf(k) : k \in 1..MaxParts} \cup SimulateOptions \cup {HiitSessionLabel, <<>>}

WhatIfTodays == {NormalDay, StrainedDay}
WhatIfBaselines == {computeBaseline(<<>>), computeBaseline(<<NormalDay, StrainedDay>>)}

InitWhatIf ==
    /\ op = "init"
    /\ metrics = <<>>
    /\ today \in WhatIfTodays
    /\ last7Days = <<>>
    /\ baseline \in WhatIfBaselines
    /\ readiness = NoReadiness
    /\ riskScore = 0
    /\ burnout = NoBurnout
    /\ anomalies = <<>>
    /\ optionLabel \in OptionLabels
    /\ simulation = NoSimulation
    /\ recommendations = <<>>
    /\ now = 0
    /\ invoke = "idle"
    /\ rejected = FALSE
    /\ CompInit

SimulateWhatIf ==
    /\ op = "init"
    /\ op' = "simulateWhatIf"
    /\ simulation' = simulateWhatIf(optionLabel, baseline, today)
    /\ UNCHANGED <<metrics, today, last7Days, baseline, readiness, riskScore, burnout>>
    /\ UNCHANGED <<anomalies, optionLabel, recommendations, now, invoke, rejected>>
    /\ UNCHANGED compVars

NextWhatIf == SimulateWhatIf

SpecWhatIf == InitWhatIf /\ [][NextWhatIf]_vars

----------------------------------------------------------------------------
(* Specification of AWSBedrockAgentExample.analyze: the context is drawn,
   analyze runs up to its await, and the invocation settles in one of the
   ways a remote call can *)

\* readings of Date.now()
Times == {1, 2}

\* today's HRV on and around 90 % of the baseline's
BedrockTodays == {Day(h, 60, 75, 85, 50, 0, 4, 4) : h \in {0, 47, 48, 53, 54, 60}}
BedrockBaselines ==
    {computeBaseline(<<>>), computeBaseline(<<NormalDay, StrainedDay>>),
     computeBaseline(<<ZeroDay>>)}

\* the recommendation arrays a successful invocation delivers
RemoteRecommendations ==
    {<<>>,
     <<Recommendation(<<"remote", 1>>, 0, "AWSBedrockAgent", "recovery",
           "Prioritise recovery", "Your trends suggest accumulated fatigue.",
           "medium", <<ActionOf("OK", "accept")>>)>>}

InitBedrock ==
    /\ op = "init"
    /\ metrics = <<>>
    /\ today \in BedrockTodays
    /\ last7Days \in {<<>>, <<NormalDay, StrainedDay>>}
    /\ baseline \in BedrockBaselines
    /\ readiness = NoReadiness
    /\ riskScore = 0
    /\ burnout = NoBurnout
    /\ ExtInit
    /\ CompInit

\* analyze up to the await: the cache holds nothing, the request is sent
BedrockAnalyze ==
    /\ op = "init"
    /\ op' = "analyze"
    /\ invoke' = "pending"
    /\ UNCHANGED <<metrics, today, last7Days, baseline, readiness, riskScore, burnout>>
    /\ UNCHANGED <<anomalies, optionLabel, simulation, recommendations, now, rejected>>
    /\ UNCHANGED compVars

\* the invocation resolves with data: its recommendations are returned
InvokeReturnsData ==
    /\ op = "analyze" /\ invoke = "pending"
    /\ \E recs \in RemoteRecommendations : recommendations' = recs
    /\ invoke' = "data"
    /\ op' = "returned"
    /\ rejected' = FALSE
    /\ UNCHANGED <<metrics, today, last7Days, baseline, readiness, riskScore, burnout>>
    /\ UNCHANGED <<anomalies, optionLabel, simulation, now>>
    /\ UNCHANGED compVars

\* the ways the call fails: "error" the invocation resolves with an error,
\* "thrown" the awaited promise rejects, "malformed" it resolves with data
\* that has no recommendations, so that reading recommendations.length throws
FailureOutcomes == {"error", "thrown", "malformed"}

\* the rest of analyze when the call failed: the error branch, or the catch
\* block, returns fallbackRecommendations(context)
InvokeFails ==
    /\ op = "analyze" /\ invoke = "pending"
    /\ \E outcome \in FailureOutcomes : invoke' = outcome
    /\ \E t \in Times :
        /\ now' = t
        /\ recommendations' = fallbackRecommendations(today, baseline, t)
    /\ op' = "returned"
    /\ rejected' = FALSE
    /\ UNCHANGED <<metrics, today, last7Days, baseline, readiness, riskScore, burnout>>
    /\ UNCHANGED <<anomalies, optionLabel, simulation>>
    /\ UNCHANGED compVars

NextBedrock ==
    \/ BedrockAnalyze
    \/ InvokeReturnsData
    \/ InvokeFails

SpecBedrock == InitBedrock /\ [][NextBedrock]_vars

----------------------------------------------------------------------------
(* Specification of FitnessCoachAgent.analyze: the context is drawn, then
   the call, which reads the clock and Math.random() *)

\* most records in a window passed to the fitness coach
MaxCoachWindow == 2

\* the readings of the clock during one analyze that pushes n
\* recommendations: time does not run backwards
Clocks(n) == {c \in [1..n -> Times] : \A i \in 1..(n - 1) : c[i] <= c[i + 1]}

\* values of Math.random(): on both sides of 0.5, and 0.5 itself
Randoms == {Rat(0, 1), Rat(1, 2), Rat(3, 4)}

\* today's fields on both sides of the deductions of computeReadiness, and
\* the training load around 60
CoachTodays ==
    {Day(h, r, 75, se, st, tl, mo, 4) :
        h \in {48, 60}, r \in {60, 69}, se \in {60, 70, 85},
        st \in {50, 76}, tl \in {0, 59, 60, 81}, mo \in {2, 4}}

CoachWindows == UNION {[1..n -> {NormalDay, ExhaustedDay}] : n \in 0..MaxCoachWindow}

InitFitnessCoach ==
    /\ op = "init"
    /\ metrics = <<>>
    /\ today \in CoachTodays
    /\ last7Days \in CoachWindows
    /\ baseline \in BurnoutBaselines
    /\ readiness = NoReadiness
    /\ riskScore = 0
    /\ burnout = NoBurnout
    /\ ExtInit
    /\ CompInit

FitnessCoachAnalyze ==
    /\ op = "init"
    /\ op' = "FitnessCoachAgent"
    /\ readiness' = computeReadiness(today, baseline, last7Days)
    /\ burnout' = computeBurnoutRisk(last7Days, baseline)
    /\ riskScore' = penalties(last7Days, baseline).riskScore
    /\ \E clock \in Clocks(1), random \in Randoms :
        /\ now' = clock[1]
        /\ recommendations' =
               FitnessCoachAgent_analyze(today, last7Days, baseline, clock, random)
    /\ UNCHANGED <<metrics, today, last7Days, baseline>>
    /\ UNCHANGED <<anomalies, optionLabel, simulation, invoke, rejected>>
    /\ UNCHANGED compVars

NextFitnessCoach == FitnessCoachAnalyze

SpecFitnessCoach == InitFitnessCoach /\ [][NextFitnessCoach]_vars

----------------------------------------------------------------------------
(* Specification of BurnoutGuardianAgent.analyze: the context is drawn, then
   the call, which reads the clock at every push *)

\* most records in a window passed to the burnout guardian
MaxGuardianWindow == 2

\* today's stress around 70, and HRV, resting HR and sleep efficiency on
\* both sides of the anomaly thresholds
GuardianTodays ==
    {Day(h, r, 75, se, st, 0, 4, 4) :
        h \in {48, 60}, r \in {60, 67}, se \in {76, 85}, st \in {50, 70, 71}}

GuardianWindows ==
    UNION {[1..n -> {NormalDay, LowHrvDay, ExhaustedDay}] : n \in 0..MaxGuardianWindow}

InitBurnoutGuardian ==
    /\ op = "init"
    /\ metrics = <<>>
    /\ today \in GuardianTodays
    /\ last7Days \in GuardianWindows
    /\ baseline \in BurnoutBaselines
    /\ readiness = NoReadiness
    /\ riskScore = 0
    /\ burnout = NoBurnout
    /\ ExtInit
    /\ CompInit

BurnoutGuardianAnalyze ==
    /\ op = "init"
    /\ op' = "BurnoutGuardianAgent"
    /\ burnout' = computeBurnoutRisk(last7Days, baseline)
    /\ riskScore' = penalties(last7Days, baseline).riskScore
    /\ anomalies' = detectAnomalies(today, baseline)
    /\ \E clock \in Clocks(2 + Len(detectAnomalies(today, baseline))) :
        /\ now' = clock[Len(clock)]
        /\ recommendations' =
               BurnoutGuardianAgent_analyze(today, last7Days, baseline, clock)
    /\ UNCHANGED <<metrics, today, last7Days, baseline, readiness>>
    /\ UNCHANGED <<optionLabel, simulation, invoke, rejected>>
    /\ UNCHANGED compVars

NextBurnoutGuardian == BurnoutGuardianAnalyze

SpecBurnoutGuardian == InitBurnoutGuardian /\ [][NextBurnoutGuardian]_vars

----------------------------------------------------------------------------
(* Specification of SleepAgent.analyze: the context is drawn, then the call,
   which reads the clock at every push *)

\* a night of 9 hours at 95 % efficiency
LongSleepDay == Day(60, 60, 90, 95, 50, 0, 4, 4)

\* nights of 7.5, 6 and 9 hours at 85, 70 and 95 % efficiency
SleepDays == {NormalDay, StrainedDay, LongSleepDay}

\* every window of at most MaxWindow records, the empty one included
SleepWindows == UNION {[1..n -> SleepDays] : n \in 0..MaxWindow}

InitSleepAgent ==
    /\ op = "init"
    /\ metrics = <<>>
    /\ today = NoDay
    /\ last7Days \in SleepWindows
    /\ baseline \in BurnoutBaselines
    /\ readiness = NoReadiness
    /\ riskScore = 0
    /\ burnout = NoBurnout
    /\ ExtInit
    /\ CompInit

SleepAnalyze ==
    /\ op = "init"
    /\ op' = "SleepAgent"
    /\ \E clock \in Clocks(2) :
        /\ now' = clock[2]
        /\ recommendations' = SleepAgent_analyze(last7Days, baseline, clock)
    /\ UNCHANGED <<metrics, today, last7Days, baseline, readiness, riskScore, burnout>>
    /\ UNCHANGED <<anomalies, optionLabel, simulation, invoke, rejected>>
    /\ UNCHANGED compVars

NextSleepAgent == SleepAnalyze

SpecSleepAgent == InitSleepAgent /\ [][NextSleepAgent]_vars

----------------------------------------------------------------------------
(* Specification of AgentOrchestrator: agents are registered and
   unregistered, analyze calls every agent, the suspended ones settle in
   any order, and the results are merged once all have settled *)

\* most agents in the registry
MaxAgents == 3

AgentIds == {"sleep", "fitness-coach", "bedrock"}

\* the agents that can be registered
AgentPool == [id : AgentIds, async : BOOLEAN, throws : BOOLEAN]

InitOrchestrator ==
    /\ op = "init"
    /\ metrics = <<>>
    /\ today = NoDay
    /\ last7Days = <<>>
    /\ baseline = DefaultBaseline
    /\ readiness = NoReadiness
    /\ riskScore = 0
    /\ burnout = NoBurnout
    /\ ExtInit
    /\ history = <<>>
    /\ orchestrator = NoOrchestrator
    /\ pullToRefresh = NoPullToRefresh
    /\ breathingExercise = NoBreathingExercise
    /\ calendar = NoCalendar

orchestratorOnly ==
    <<metrics, today, last7Days, baseline, readiness, riskScore, burnout, anomalies,
      optionLabel, simulation, recommendations, now, invoke, rejected, history,
      pullToRefresh, breathingExercise, calendar>>

RegisterAgent ==
    /\ orchestrator.pc = "idle"
    /\ Len(orchestrator.agents) < MaxAgents
    /\ \E agent \in AgentPool :
        /\ \A i \in 1..Len(orchestrator.agents) : orchestrator.agents[i].id /= agent.id
        /\ orchestrator' =
               [orchestrator EXCEPT !.agents = registerAgent(@, agent)]
    /\ op' = "registerAgent"
    /\ UNCHANGED orchestratorOnly

UnregisterAgent ==
    /\ orchestrator.pc = "idle"
    /\ \E i \in 1..Len(orchestrator.agents) :
        orchestrator' =
            [orchestrator EXCEPT !.agents = unregisterAgent(@, orchestrator.agents[i].id)]
    /\ op' = "unregisterAgent"
    /\ UNCHANGED orchestratorOnly

\* analyze(context) up to its await: every agent is called, in registration
\* order; the synchronous ones have completed, in that order
OrchestratorAnalyze ==
    /\ orchestrator.pc = "idle"
    /\ LET results == [i \in 1..Len(orchestrator.agents) |->
                          invokeAgent(orchestrator.agents[i])]
       IN orchestrator' =
              [orchestrator EXCEPT
                  !.pc = "awaiting",
                  !.results = results,
                  !.completed = SelectSeq([i \in 1..Len(results) |-> i],
                                          LAMBDA i : results[i] /= "pending")]
    /\ op' = "analyze"
    /\ UNCHANGED orchestratorOnly

\* a suspended analyze settles
AgentSettles ==
    /\ orchestrator.pc = "awaiting"
    /\ \E i \in 1..Len(orchestrator.agents) :
        /\ orchestrator.results[i] = "pending"
        /\ orchestrator' =
               [orchestrator EXCEPT
                   !.results[i] = settleAgent(orchestrator.agents[i]),
                   !.completed = Append(@, i)]
    /\ op' = "settled"
    /\ UNCHANGED orchestratorOnly

\* the rest of analyze, once every agent has settled
OrchestratorMerge ==
    /\ orchestrator.pc = "awaiting"
    /\ \A i \in 1..Len(orchestrator.agents) : orchestrator.results[i] /= "pending"
    /\ orchestrator' = [orchestrator EXCEPT !.pc = "done", !.merged = merge(orchestrator)]
    /\ op' = "returned"
    /\ UNCHANGED orchestratorOnly

NextOrchestrator ==
    \/ RegisterAgent
    \/ UnregisterAgent
    \/ OrchestratorAnalyze
    \/ AgentSettles
    \/ OrchestratorMerge

SpecOrchestrator == InitOrchestrator /\ [][NextOrchestrator]_vars

----------------------------------------------------------------------------
(* Specification of the analysis cycle: SleepAgent, FitnessCoachAgent and
   BurnoutGuardianAgent analyze the same context one after the other, each
   reading the clock at every push; the recommendations of a finished cycle
   are kept and the next cycle starts *)

\* most cycles run
MaxCycles == 2

\* the readings of the clock during an analyze that starts no earlier than
\* the reading t0
ClocksFrom(n, t0) == {c \in Clocks(n) : \A i \in 1..n : c[i] >= t0}

CycleTodays ==
    {Day(h, r, 75, se, st, 0, 4, 4) :
        h \in {48, 60}, r \in {60, 67}, se \in {76, 85}, st \in {50, 71}}

CycleWindows ==
    {<<>>, <<ExhaustedDay>>, <<NormalDay, LowHrvDay>>,
     <<NormalDay, NormalDay, NormalDay, NormalDay, NormalDay, NormalDay, NormalDay>>}

InitCycle ==
    /\ op = "init"
    /\ metrics = <<>>
    /\ today \in CycleTodays
    /\ last7Days \in CycleWindows
    /\ baseline \in BurnoutBaselines
    /\ readiness = NoReadiness
    /\ riskScore = 0
    /\ burnout = NoBurnout
    /\ ExtInit
    /\ CompInit

cycleOnly ==
    <<metrics, today, last7Days, baseline, readiness, riskScore, burnout, anomalies,
      optionLabel, simulation, invoke, rejected, orchestrator, pullToRefresh,
      breathingExercise, calendar>>

CycleSleepAgent ==
    /\ op \in {"init", "cycleEnd"}
    /\ Len(history) < MaxCycles
    /\ op' = "SleepAgent"
    /\ \E clock \in ClocksFrom(2, now) :
        /\ now' = clock[2]
        /\ recommendations' = SleepAgent_analyze(last7Days, baseline, clock)
    /\ UNCHANGED history
    /\ UNCHANGED cycleOnly

CycleFitnessCoachAgent ==
    /\ op = "SleepAgent"
    /\ op' = "FitnessCoachAgent"
    /\ \E clock \in ClocksFrom(1, now), random \in Randoms :
        /\ now' = clock[1]
        /\ recommendations' = recommendations
               \o FitnessCoachAgent_analyze(today, last7Days, baseline, clock, random)
    /\ UNCHANGED history
    /\ UNCHANGED cycleOnly

CycleBurnoutGuardianAgent ==
    /\ op = "FitnessCoachAgent"
    /\ op' = "BurnoutGuardianAgent"
    /\ \E clock \in ClocksFrom(2 + Len(detectAnomalies(today, baseline)), now) :
        /\ now' = clock[Len(clock)]
        /\ recommendations' = recommendations
               \o BurnoutGuardianAgent_analyze(today, last7Days, baseline, clock)
    /\ UNCHANGED history
    /\ UNCHANGED cycleOnly

\* the cycle is over: its recommendations are handed over
CycleEnd ==
    /\ op = "BurnoutGuardianAgent"
    /\ op' = "cycleEnd"
    /\ history' = Append(history, recommendations)
    /\ recommendations' = <<>>
    /\ UNCHANGED now
    /\ UNCHANGED cycleOnly

NextCycle ==
    \/ CycleSleepAgent
    \/ CycleFitnessCoachAgent
    \/ CycleBurnoutGuardianAgent
    \/ CycleEnd

SpecCycle == InitCycle /\ [][NextCycle]_vars

----------------------------------------------------------------------------
(* Specification of PullToRefresh: touch events arrive in any order, the
   content scrolls, the refresh settles, and React renders. The update of a
   touch-end is rendered before the next event; those of a touch-move and of
   the finally block are rendered at some later time. *)

\* clientY of a touch: distances of 1, 80, 81 and more than 120 occur
ClientYs == {0, 80, 81, 210}
ScrollTops == {0, 10}

InitPullToRefresh ==
    /\ op = "init"
    /\ metrics = <<>>
    /\ today = NoDay
    /\ last7Days = <<>>
    /\ baseline = DefaultBaseline
    /\ readiness = NoReadiness
    /\ riskScore = 0
    /\ burnout = NoBurnout
    /\ ExtInit
    /\ history = <<>>
    /\ orchestrator = NoOrchestrator
    /\ pullToRefresh = MountedPullToRefresh
    /\ breathingExercise = NoBreathingExercise
    /\ calendar = NoCalendar

pullToRefreshOnly ==
    <<metrics, today, last7Days, baseline, readiness, riskScore, burnout, anomalies,
      optionLabel, simulation, recommendations, now, invoke, rejected, history,
      orchestrator, breathingExercise, calendar>>

TouchStart ==
    /\ \E clientY \in ClientYs :
        pullToRefresh' = handleTouchStart(pullToRefresh, clientY)
    /\ op' = "touchStart"
    /\ UNCHANGED pullToRefreshOnly

TouchMove ==
    /\ \E clientY \in ClientYs :
        pullToRefresh' = handleTouchMove(pullToRefresh, clientY)
    /\ op' = "touchMove"
    /\ UNCHANGED pullToRefreshOnly

TouchEnd ==
    /\ pullToRefresh' = render(handleTouchEnd(pullToRefresh))
    /\ op' = "touchEnd"
    /\ UNCHANGED pullToRefreshOnly

Scroll ==
    /\ \E top \in ScrollTops : pullToRefresh' = [pullToRefresh EXCEPT !.scrollTop = top]
    /\ op' = "scroll"
    /\ UNCHANGED pullToRefreshOnly

RefreshSettles ==
    /\ pullToRefresh.inFlight > 0
    /\ \E outcome \in {"resolved", "rejected"} :
        pullToRefresh' = refreshSettled(pullToRefresh, outcome)
    /\ op' = "refreshSettled"
    /\ UNCHANGED pullToRefreshOnly

Render ==
    /\ pullToRefresh' = render(pullToRefresh)
    /\ op' = "render"
    /\ UNCHANGED pullToRefreshOnly

NextPullToRefresh ==
    \/ TouchStart
    \/ TouchMove
    \/ TouchEnd
    \/ Scroll
    \/ RefreshSettles
    \/ Render

SpecPullToRefresh == InitPullToRefresh /\ [][NextPullToRefresh]_vars

----------------------------------------------------------------------------
(* Specification of BreathingExercise: the props are drawn; the user
   toggles (start, pause, resume) and resets; while the session is active
   the interval callback runs, on time or late. A render, and with it the
   new interval over the new state, comes before the next callback. *)

\* most calls of handleToggle
MaxToggles == 3

\* duration * 60 for a duration of a third and of half a minute
DurationSeconds == {20, 30}

\* seconds between two runs of the interval callback that change anything
TickSeconds == {1, 2}

\* seconds the user waits before a toggle
WaitSeconds == {1, 3}

InitBreathing ==
    /\ op = "init"
    /\ metrics = <<>>
    /\ today = NoDay
    /\ last7Days = <<>>
    /\ baseline = DefaultBaseline
    /\ readiness = NoReadiness
    /\ riskScore = 0
    /\ burnout = NoBurnout
    /\ ExtInit
    /\ history = <<>>
    /\ orchestrator = NoOrchestrator
    /\ pullToRefresh = NoPullToRefresh
    /\ \E type \in DOMAIN patterns, durationSeconds \in DurationSeconds :
        breathingExercise = MountedBreathingExercise(type, durationSeconds)
    /\ calendar = NoCalendar

breathingOnly ==
    <<metrics, today, last7Days, baseline, readiness, riskScore, burnout, anomalies,
      optionLabel, simulation, recommendations, invoke, rejected, history,
      orchestrator, pullToRefresh, calendar>>

\* the interval fires
BreathingTick ==
    /\ breathingExercise.isActive
    /\ \E seconds \in TickSeconds :
        /\ now' = now + seconds
        /\ breathingExercise' =
               [intervalCallback(breathingExercise, now + seconds)
                    EXCEPT !.running = @ + seconds]
    /\ op' = "tick"
    /\ UNCHANGED breathingOnly

\* the user presses start / pause / resume
BreathingToggle ==
    /\ breathingExercise.saved = <<>>
    /\ breathingExercise.toggles < MaxToggles
    /\ \E seconds \in WaitSeconds :
        /\ now' = now + seconds
        /\ breathingExercise' = handleToggle(breathingExercise, now + seconds)
    /\ op' = "toggle"
    /\ UNCHANGED breathingOnly

\* the user presses reset
BreathingReset ==
    /\ breathingExercise.saved = <<>>
    /\ breathingExercise.toggles > 0
    /\ breathingExercise' = handleReset(breathingExercise)
    /\ op' = "reset"
    /\ UNCHANGED now
    /\ UNCHANGED breathingOnly

NextBreathing ==
    \/ BreathingTick
    \/ BreathingToggle
    \/ BreathingReset

SpecBreathing == InitBreathing /\ [][NextBreathing]_vars

----------------------------------------------------------------------------
(* Specification of parseICalendar: the content of an .ics file is drawn,
   written from a list of VEVENT blocks, each with or without a SUMMARY
   and with one of the forms of DTSTART or none; parseICalendar is applied
   to the text. *)

\* most VEVENT blocks in a file
MaxBlocks == 2

Summaries == {"none", "Run", "Gym"}
Starts == {"none", "local", "utc", "date"}
LineEndings == {<<"\n">>, <<"\r", "\n">>}

\* the lines of a block: 'Gym' is folded over two lines and comes with a
\* description and a location
summaryLines(summary) ==
    IF summary = "Run" THEN <<<<"S", "U", "M", "M", "A", "R", "Y", ":", "R", "u", "n">>>>
    ELSE IF summary = "Gym"
    THEN <<<<"S", "U", "M", "M", "A", "R", "Y", ":", "G", "y">>, <<" ", "m">>,
           <<"D", "E", "S", "C", "R", "I", "P", "T", "I", "O", "N", ":", "L", "e", "g", "s", "\\", ",", " ", "c", "o", "r", "e">>,
           <<"L", "O", "C", "A", "T", "I", "O", "N", ":", "H", "a", "l", "l">>>>
    ELSE <<>>

startLines(start) ==
    IF start = "local"
    THEN <<<<"D", "T", "S", "T", "A", "R", "T", ":", "2", "0", "2", "4", "0", "3", "1", "5", "T", "1", "4", "3", "0", "0", "0">>,
           <<"D", "T", "E", "N", "D", ":", "2", "0", "2", "4", "0", "3", "1", "5", "T", "1", "5", "3", "0", "0", "0">>>>
    ELSE IF start = "utc"
    THEN <<<<"D", "T", "S", "T", "A", "R", "T", ":", "2", "0", "2", "4", "0", "3", "1", "6", "T", "0", "9", "0", "0", "0", "0", "Z">>>>
    ELSE IF start = "date"
    THEN <<<<"D", "T", "S", "T", "A", "R", "T", ";", "V", "A", "L", "U", "E", "=", "D", "A", "T", "E", ":", "2", "0", "2", "4", "0", "3", "1", "7">>>>
    ELSE <<>>

blockLines(block) ==
    <<<<"B", "E", "G", "I", "N", ":", "V", "E", "V", "E", "N", "T">>>>
        \o summaryLines(block.summary) \o startLines(block.start)
        \o <<<<"E", "N", "D", ":", "V", "E", "V", "E", "N", "T">>>>

RECURSIVE blocksLines(_)
blocksLines(blocks) ==
    IF blocks = <<>> THEN <<>>
    ELSE blockLines(Head(blocks)) \o blocksLines(Tail(blocks))

RECURSIVE joinLines(_, _)
joinLines(lines, lineEnding) ==
    IF lines = <<>> THEN <<>>
    ELSE Head(lines) \o lineEnding \o joinLines(Tail(lines), lineEnding)

icsOf(blocks, lineEnding) ==
    joinLines(<<<<"B", "E", "G", "I", "N", ":", "V", "C", "A", "L", "E", "N", "D", "A", "R">>>>
                  \o blocksLines(blocks)
                  \o <<<<"E", "N", "D", ":", "V", "C", "A", "L", "E", "N", "D", "A", "R">>>>,
              lineEnding)

Blocks == [summary : Summaries, start : Starts]

InitCalendar ==
    /\ op = "init"
    /\ metrics = <<>>
    /\ today = NoDay
    /\ last7Days = <<>>
    /\ baseline = DefaultBaseline
    /\ readiness = NoReadiness
    /\ riskScore = 0
    /\ burnout = NoBurnout
    /\ ExtInit
    /\ history = <<>>
    /\ orchestrator = NoOrchestrator
    /\ pullToRefresh = NoPullToRefresh
    /\ breathingExercise = NoBreathingExercise
    /\ \E n \in 0..MaxBlocks :
        \E blocks \in [1..n -> Blocks], lineEnding \in LineEndings :
            calendar = [blocks |-> blocks,
                        icsContent |-> icsOf(blocks, lineEnding),
                        events |-> <<>>]

calendarOnly ==
    <<metrics, today, last7Days, baseline, readiness, riskScore, burnout, anomalies,
      optionLabel, simulation, recommendations, now, invoke, rejected, history,
      orchestrator, pullToRefresh, breathingExercise>>

ParseICalendar ==
    /\ op = "init"
    /\ calendar' = [calendar EXCEPT !.events = parseICalendar(calendar.icsContent)]
    /\ op' = "parseICalendar"
    /\ UNCHANGED calendarOnly

NextCalendar == ParseICalendar

SpecCalendar == InitCalendar /\ [][NextCalendar]_vars

----------------------------------------------------------------------------
(* Claims about computeBaseline, checked under SpecBaseline *)

\* the sum of a field over the records lo..hi of a history, by index
RECURSIVE FieldSum(_, _, _, _)
FieldSum(arr, field, lo, hi) ==
    IF lo > hi THEN 0 ELSE arr[hi][field] + FieldSum(arr, field, lo, hi - 1)

BaselineFields == {"hrv", "restingHr", "sleepHours", "sleepEfficiency", "stressScore"}

\* C2: for a history of length 0 computeBaseline returns exactly the default
\* baseline {hrv 60, restingHr 60, sleepHours 7.5, sleepEfficiency 85,
\* stressScore 50}; no field is the quotient of a division (by zero).
C2_EmptyHistoryDefault ==
    (op = "computeBaseline" /\ Len(metrics) = 0) =>
        baseline = [hrv |-> [num |-> 60, den |-> 1],
                    restingHr |-> [num |-> 60, den |-> 1],
                    sleepHours |-> [num |-> 75, den |-> 1],
                    sleepEfficiency |-> [num |-> 85, den |-> 1],
                    stressScore |-> [num |-> 50, den |-> 1]]

C2_Witness == op = "computeBaseline" /\ metrics = <<>>

\* C3: for a history of at least 14 records the baseline depends on the last
\* 14 only: prepending any older records leaves every field unchanged.
C3_OlderRecordsIgnored ==
    (op = "computeBaseline" /\ Len(metrics) >= 14) =>
        \A older \in OlderRecords : computeBaseline(older \o metrics) = baseline

\* a history of more than 14 records whose oldest record differs from all of
\* the last 14
C3_Witness ==
    /\ op = "computeBaseline"
    /\ Len(metrics) > 14
    /\ metrics[1] = StrainedDay
    /\ SameNumber(baseline.hrv, Num(60))

\* C4: for a non-empty history of n records each field of the baseline is the
\* sum of that field over the last min(14, n) records divided by min(14, n).
C4_MeanOfLastRecords ==
    (op = "computeBaseline" /\ Len(metrics) > 0) =>
        LET n == Len(metrics)
            k == IF n < 14 THEN n ELSE 14
        IN \A f \in BaselineFields :
            /\ IsFinite(baseline[f])
            /\ baseline[f].num * k = FieldSum(metrics, f, n - k + 1, n) * baseline[f].den

\* a history longer than the window, with both kinds of record inside the
\* window and a record outside it
C4_Witness ==
    /\ op = "computeBaseline"
    /\ Len(metrics) > 14
    /\ metrics[1] = StrainedDay
    /\ metrics[Len(metrics)] = StrainedDay
    /\ metrics[Len(metrics) - 1] = NormalDay

----------------------------------------------------------------------------
(* Claims about computeReadiness, checked under SpecReadiness *)

\* s occurs in the sequence seq
Contains(seq, s) == \E i \in 1..Len(seq) : seq[i] = s

\* C1: whatever today, baseline and last7Days are, and however many of the six
\* deduction rules fire in one call, the score returned is within [0, 100].
C1_ScoreInRange ==
    op = "computeReadiness" => (readiness.score >= 0 /\ readiness.score <= 100)

\* all six rules deduct in one call (105 points in total) and the score is 0
C1_Witness ==
    /\ op = "computeReadiness"
    /\ Contains(readiness.explanation, "Poor sleep quality impacting recovery")
    /\ Contains(readiness.explanation,
                "HRV significantly below baseline - high stress or fatigue")
    /\ Contains(readiness.explanation,
                "Elevated resting heart rate - possible overtraining or illness")
    /\ Contains(readiness.explanation, "High training load - need recovery")
    /\ Contains(readiness.explanation, "Low mood or energy levels")
    /\ Contains(readiness.explanation, "High stress levels")
    /\ readiness.score = 0

\* The six deductions of the claim, over integers: a baseline field is the
\* fraction num/den with num, den > 0, so that
\*   sleep factor = sleepHours * den * sleepEfficiency / num   (in percent)
\*   delta %      = (value * den - num) * 100 / num
C5_SleepPoints(t, b) ==
    LET f == t.sleepHours * b.sleepHours.den * t.sleepEfficiency
        n == b.sleepHours.num
    IN IF f < 70 * n THEN 20 ELSE IF f < 85 * n THEN 10 ELSE 0
C5_HrvPoints(t, b) ==
    LET d == (t.hrv * b.hrv.den - b.hrv.num) * 100
        n == b.hrv.num
    IN IF d < -15 * n THEN 25 ELSE IF d < -5 * n THEN 10 ELSE 0
C5_HrPoints(t, b) ==
    LET d == (t.restingHr * b.restingHr.den - b.restingHr.num) * 100
        n == b.restingHr.num
    IN IF d > 10 * n THEN 20 ELSE IF d > 5 * n THEN 10 ELSE 0
C5_Deductions(t, b) ==
    C5_SleepPoints(t, b) + C5_HrvPoints(t, b) + C5_HrPoints(t, b)
    + (IF t.trainingLoad > 80 THEN 15 ELSE 0)
    + (IF t.moodScore <= 2 \/ t.energyScore <= 2 THEN 15 ELSE 0)
    + (IF t.stressScore > 75 THEN 10 ELSE 0)

\* the scenario of the claim: HRV 20 % under the default baseline, all else
\* at the baseline
C5_ScenarioToday == Day(48, 60, 75, 85, 50, 0, 4, 4)
C5_ScenarioBaseline ==
    [hrv |-> [num |-> 60, den |-> 1], restingHr |-> [num |-> 60, den |-> 1],
     sleepHours |-> [num |-> 75, den |-> 1],
     sleepEfficiency |-> [num |-> 85, den |-> 1],
     stressScore |-> [num |-> 50, den |-> 1]]

\* C5: for a baseline with positive fields the score is max(0, 100 - D), D the
\* sum of the six independent deductions (sleep 20/10/0, HRV 25/10, resting
\* HR 20/10, training load 15, mood or energy 15, stress 10); in the scenario
\* the score is 75 and the explanation has the 'HRV significantly below
\* baseline' entry.
C5_ScoreIsHundredMinusDeductions ==
    (op = "computeReadiness"
        /\ baseline.hrv.num > 0 /\ baseline.hrv.den > 0
        /\ baseline.restingHr.num > 0 /\ baseline.restingHr.den > 0
        /\ baseline.sleepHours.num > 0 /\ baseline.sleepHours.den > 0) =>
        /\ readiness.score = MathMax(0, 100 - C5_Deductions(today, baseline))
        /\ (today = C5_ScenarioToday /\ baseline = C5_ScenarioBaseline) =>
               /\ readiness.score = 75
               /\ Contains(readiness.explanation,
                           "HRV significantly below baseline - high stress or fatigue")

C5_Witness ==
    /\ op = "computeReadiness"
    /\ today = C5_ScenarioToday
    /\ baseline = C5_ScenarioBaseline
    /\ readiness.score = 75

----------------------------------------------------------------------------
(* Claims about computeBurnoutRisk, checked under SpecBurnout *)

\* the last element of a non-empty sequence
Last(seq) == seq[Len(seq)]

\* The four conditions of the rules, over integers: the baseline field is
\* num/den, the window average is a field sum over n records (n3 records
\* for the 3-day averages), and an average over no record satisfies nothing.
HrvDeclineHolds(w, b) ==
    LET n == Len(w)
        n3 == IF n < 3 THEN n ELSE 3
    IN FieldSum(w, "hrv", n - n3 + 1, n) * b.hrv.den * 100 < 85 * b.hrv.num * n3
HrElevatedHolds(w, b) ==
    LET n == Len(w)
        n3 == IF n < 3 THEN n ELSE 3
    IN FieldSum(w, "restingHr", n - n3 + 1, n) * b.restingHr.den * 10
           > 11 * b.restingHr.num * n3
PoorSleepHolds(w, b) ==
    FieldSum(w, "sleepEfficiency", 1, Len(w)) * b.sleepEfficiency.den * 10
        < 9 * b.sleepEfficiency.num * Len(w)
StressComboHolds(w) ==
    /\ FieldSum(w, "stressScore", 1, Len(w)) > 70 * Len(w)
    /\ \/ FieldSum(w, "moodScore", 1, Len(w)) < 3 * Len(w)
       \/ FieldSum(w, "energyScore", 1, Len(w)) < 3 * Len(w)

\* the sum of the contributions of the conditions that hold
ContributionSum(w, b) ==
    (IF HrvDeclineHolds(w, b) THEN 30 ELSE 0)
    + (IF HrElevatedHolds(w, b) THEN 25 ELSE 0)
    + (IF PoorSleepHolds(w, b) THEN 20 ELSE 0)
    + (IF StressComboHolds(w) THEN 25 ELSE 0)

\* the scenario of C6: a 7-day window whose last 3 days average 0.80 x
\* baseline.hrv, every other metric of every day at the baseline
C6_Scenario ==
    /\ Len(last7Days) = 7
    /\ FieldSum(last7Days, "hrv", 5, 7) * baseline.hrv.den * 10
           = 8 * baseline.hrv.num * 3
    /\ \A i \in 1..7 :
        /\ last7Days[i].restingHr * baseline.restingHr.den = baseline.restingHr.num
        /\ last7Days[i].sleepEfficiency * baseline.sleepEfficiency.den
               = baseline.sleepEfficiency.num
        /\ last7Days[i].stressScore * baseline.stressScore.den
               = baseline.stressScore.num

\* C6: the level is Red for riskScore >= 50, Yellow for 25 <= riskScore < 50
\* and Green otherwise; the 7-day window in which only the HRV decline holds
\* has riskScore 30 and level Yellow.
C6_LevelThresholds ==
    op = "computeBurnoutRisk" =>
        /\ riskScore >= 50 => burnout.level = "Red"
        /\ (riskScore >= 25 /\ riskScore < 50) => burnout.level = "Yellow"
        /\ riskScore < 25 => burnout.level = "Green"
        /\ C6_Scenario => (riskScore = 30 /\ burnout.level = "Yellow")

C6_Witness ==
    /\ op = "computeBurnoutRisk"
    /\ C6_Scenario
    /\ burnout.level = "Yellow"

\* C7: the contributions are additive and independent: riskScore is the sum
\* of the contributions of the conditions that hold (HRV decline 30, resting
\* HR 25, sleep efficiency 20, stress with mood/energy 25), never above 100,
\* and the HRV rationale and action are present exactly when the HRV decline
\* holds, whatever the other conditions are.
C7_AdditiveContributions ==
    op = "computeBurnoutRisk" =>
        /\ riskScore = ContributionSum(last7Days, baseline)
        /\ riskScore <= 100
        /\ Contains(burnout.rationale, "HRV has been declining for 3+ days")
               <=> HrvDeclineHolds(last7Days, baseline)
        /\ Contains(burnout.actions, "Prioritize sleep and reduce training intensity")
               <=> HrvDeclineHolds(last7Days, baseline)

\* all four conditions hold in one window
C7_Witness ==
    /\ op = "computeBurnoutRisk"
    /\ HrvDeclineHolds(last7Days, baseline)
    /\ HrElevatedHolds(last7Days, baseline)
    /\ PoorSleepHolds(last7Days, baseline)
    /\ StressComboHolds(last7Days)
    /\ riskScore = 100

\* C8: the level is Green only when no penalty rule triggered: a Green
\* result's rationale is exactly the single 'all key recovery markers are
\* stable' entry.
C8_GreenMeansNoRule ==
    (op = "computeBurnoutRisk" /\ burnout.level = "Green") =>
        burnout.rationale = <<"All key recovery markers are stable">>

\* C9: the 'consult a healthcare professional' action is present iff the
\* level is Red and is then the last action; the 'recovery markers stable'
\* rationale and the 'keep current balance' action are present iff the level
\* is Green and are then the last entries; a Yellow result has neither.
C9_LevelEntries ==
    op = "computeBurnoutRisk" =>
        LET consult == "Consider consulting a healthcare professional"
            stable == "All key recovery markers are stable"
            keep == "Keep up your current balance of training and recovery"
        IN /\ Contains(burnout.actions, consult) <=> burnout.level = "Red"
           /\ burnout.level = "Red" => Last(burnout.actions) = consult
           /\ Contains(burnout.rationale, stable) <=> burnout.level = "Green"
           /\ Contains(burnout.actions, keep) <=> burnout.level = "Green"
           /\ burnout.level = "Green" =>
                  (Last(burnout.rationale) = stable /\ Last(burnout.actions) = keep)
           /\ burnout.level \in {"Green", "Yellow", "Red"}

\* a Red result that carries the actions of rules before the consult action
C9_Witness ==
    /\ op = "computeBurnoutRisk"
    /\ burnout.level = "Red"
    /\ Len(burnout.actions) >= 3
    /\ Last(burnout.actions) = "Consider consulting a healthcare professional"

\* C10: on a window shorter than 7 records, the empty one included, the call
\* returns a well-formed result whose level comes from defined averages: the
\* 3-day averages are taken over the min(3, n) records that exist and the
\* 7-day averages over all n records, and every average is a number.
C10_ShortWindowAverages ==
    (op = "computeBurnoutRisk" /\ Len(last7Days) < 7) =>
        LET n == Len(last7Days)
            n3 == IF n < 3 THEN n ELSE 3
            IsMean(a, field, lo) ==
                /\ IsFinite(a)
                /\ a.num * (n - lo + 1) = FieldSum(last7Days, field, lo, n) * a.den
        IN /\ burnout.level \in {"Green", "Yellow", "Red"}
           /\ IsMean(avgHRV(last7Days), "hrv", n - n3 + 1)
           /\ IsMean(avgHR(last7Days), "restingHr", n - n3 + 1)
           /\ IsMean(avgSleepEff(last7Days), "sleepEfficiency", 1)
           /\ IsMean(avgStress(last7Days), "stressScore", 1)
           /\ IsMean(avgMood(last7Days), "moodScore", 1)
           /\ IsMean(avgEnergy(last7Days), "energyScore", 1)

----------------------------------------------------------------------------
(* Claims about detectAnomalies, checked under SpecAnomalies *)

\* the metric names of a list of anomalies, in order
RECURSIVE MetricsOf(_)
MetricsOf(list) ==
    IF list = <<>> THEN <<>> ELSE <<Head(list).metric>> \o MetricsOf(Tail(list))

\* The three conditions over integers, for a baseline field num/den with
\* num, den > 0: delta % = (value * den - num) * 100 / num.
RestingHrSpikes(t, b) ==
    (t.restingHr * b.restingHr.den - b.restingHr.num) * 100 > 10 * b.restingHr.num
HrvDrops(t, b) ==
    (t.hrv * b.hrv.den - b.hrv.num) * 100 < -15 * b.hrv.num
SleepEfficiencyDrops(t, b) ==
    (t.sleepEfficiency * b.sleepEfficiency.den - b.sleepEfficiency.num) * 100
        < -10 * b.sleepEfficiency.num

PositiveBaseline(b) ==
    /\ b.hrv.num > 0 /\ b.hrv.den > 0
    /\ b.restingHr.num > 0 /\ b.restingHr.den > 0
    /\ b.sleepEfficiency.num > 0 /\ b.sleepEfficiency.den > 0
    /\ b.sleepHours.num > 0 /\ b.sleepHours.den > 0

\* C11: detectAnomalies returns exactly the subsequence of [Resting Heart
\* Rate, Heart Rate Variability, Sleep Efficiency] whose condition holds
\* (resting HR delta > 10 %, HRV delta < -15 %, sleep efficiency delta
\* < -10 %), in that order, each metric at most once: 0 to 3 elements.
C11_AnomaliesInFixedOrder ==
    op = "detectAnomalies" =>
        /\ Len(anomalies) <= 3
        /\ \A i, j \in 1..Len(anomalies) :
               i < j => anomalies[i].metric /= anomalies[j].metric
        /\ PositiveBaseline(baseline) =>
               MetricsOf(anomalies) =
                   (IF RestingHrSpikes(today, baseline)
                    THEN <<"Resting Heart Rate">> ELSE <<>>)
                   \o (IF HrvDrops(today, baseline)
                       THEN <<"Heart Rate Variability">> ELSE <<>>)
                   \o (IF SleepEfficiencyDrops(today, baseline)
                       THEN <<"Sleep Efficiency">> ELSE <<>>)

\* all three checks fire in one call
C11_Witness ==
    /\ op = "detectAnomalies"
    /\ PositiveBaseline(baseline)
    /\ MetricsOf(anomalies) =
           <<"Resting Heart Rate", "Heart Rate Variability", "Sleep Efficiency">>

\* today's resting HR, HRV and sleep efficiency equal the baseline's
TodayAtBaseline ==
    /\ today.restingHr * baseline.restingHr.den = baseline.restingHr.num
    /\ today.hrv * baseline.hrv.den = baseline.hrv.num
    /\ today.sleepEfficiency * baseline.sleepEfficiency.den
           = baseline.sleepEfficiency.num

\* C12: when today's restingHr, hrv and sleepEfficiency equal the baseline's
\* exactly, and the baseline's fields are non-zero, the result is empty.
C12_NoAnomalyAtBaseline ==
    (op = "detectAnomalies" /\ PositiveBaseline(baseline) /\ TodayAtBaseline) =>
        anomalies = <<>>

\* today at a baseline other than the default one
C12_Witness ==
    /\ op = "detectAnomalies"
    /\ PositiveBaseline(baseline)
    /\ TodayAtBaseline
    /\ today.hrv = 45
    /\ anomalies = <<>>

----------------------------------------------------------------------------
(* Claims about simulateWhatIf, checked under SpecWhatIf *)

\* c and d are the same character up to case
SameLetter(c, d) ==
    c = d \/ \E k \in 1..26 : {c, d} = {UpperCaseLetters[k], LowerCaseLetters[k]}

\* the word occurs in the label at some position, in any mix of cases
Mentions(label, word) ==
    \E i \in 1..(Len(label) - Len(word) + 1) :
        \A k \in 1..Len(word) : SameLetter(label[i + k - 1], word[k])

MentionsZone2(label) ==
    Mentions(label, <<"z", "o", "n", "e", "-", "2">>) \/ Mentions(label, <<"z", "o", "n", "e", " ", "2">>)
MentionsHiit(label) == Mentions(label, <<"h", "i", "i", "t">>)
MentionsStrength(label) == Mentions(label, <<"s", "t", "r", "e", "n", "g", "t", "h">>)
MentionsRest(label) == Mentions(label, <<"r", "e", "s", "t">>)
MentionsSleep(label) ==
    Mentions(label, <<"e", "x", "t", "r", "a", " ", "s", "l", "e", "e", "p">>) \/ Mentions(label, <<"e", "a", "r", "l", "y", " ", "b", "e", "d">>)

\* the deltas (readiness, sleep in tenths of an hour, recovery) of the
\* earliest branch, in the claim's order, whose keyword the label mentions
C13_Expected(label) ==
    IF MentionsZone2(label) THEN <<-5, 0, 5>>
    ELSE IF MentionsHiit(label) THEN <<-15, -5, -10>>
    ELSE IF MentionsStrength(label) THEN <<-10, 0, -5>>
    ELSE IF MentionsRest(label) THEN <<10, 5, 15>>
    ELSE IF MentionsSleep(label) THEN <<12, 10, 20>>
    ELSE <<-8, 0, 0>>

\* C13: the result is chosen by case-insensitive substring match on the
\* label, first match wins in the order zone-2 / zone 2, hiit, strength,
\* rest, extra sleep / early bed, else the default; a label matching several
\* keywords gets the result of the earliest branch only.
C13_FirstMatchWins ==
    op = "simulateWhatIf" =>
        <<simulation.readinessDelta, simulation.sleepDelta, simulation.recoveryDelta>>
            = C13_Expected(optionLabel)

\* a label in capitals that mentions hiit and, after it, rest
C13_Witness ==
    /\ op = "simulateWhatIf"
    /\ MentionsHiit(optionLabel)
    /\ MentionsRest(optionLabel)
    /\ ~includes(optionLabel, <<"h", "i", "i", "t">>)
    /\ simulation.readinessDelta = -15

\* C14: the result depends on the label alone: any other baseline and today
\* give the same four fields; 'HIIT session' yields readinessDelta -15,
\* sleepDelta -0.5 and recoveryDelta -10.
C14_LabelOnly ==
    op = "simulateWhatIf" =>
        /\ \A b \in WhatIfBaselines, t \in WhatIfTodays :
               simulateWhatIf(optionLabel, b, t) = simulation
        /\ optionLabel = HiitSessionLabel =>
               /\ simulation.readinessDelta = -15
               /\ simulation.sleepDelta = -5
               /\ simulation.recoveryDelta = -10

C14_Witness ==
    /\ op = "simulateWhatIf"
    /\ optionLabel = HiitSessionLabel
    /\ today = StrainedDay
    /\ baseline /= DefaultBaseline
    /\ simulation.readinessDelta = -15

----------------------------------------------------------------------------
(* Claims about computeReadiness's third argument, checked under SpecReadiness *)

\* windows to call computeReadiness with in place of the one passed
C15_OtherWindows == ReadinessWindows \cup {<<ZeroDay, ZeroDay, ZeroDay>>}

\* C15: last7Days has no effect on computeReadiness: for the same today and
\* baseline, any other window gives the same score and the same explanation.
C15_WindowIgnored ==
    op = "computeReadiness" =>
        \A w \in C15_OtherWindows : computeReadiness(today, baseline, w) = readiness

\* a call with a non-empty window holding a strained day, for a day that
\* takes deductions
C15_Witness ==
    /\ op = "computeReadiness"
    /\ Len(last7Days) > 0
    /\ last7Days[1].trainingLoad > 80
    /\ readiness.score < 100
    /\ \E w \in C15_OtherWindows : w /= last7Days

----------------------------------------------------------------------------
(* Claims about AWSBedrockAgentExample, checked under SpecBedrock *)

\* analyze has returned after the remote call failed
RemoteCallFailed ==
    op = "returned" /\ invoke \in FailureOutcomes

\* C16: when the remote call fails (the invocation returns an error, or an
\* exception is thrown inside analyze), analyze does not propagate the error
\* and returns a non-empty fallback recommendation set, for every context.
C16_FallbackNonEmpty ==
    RemoteCallFailed => ~rejected /\ Len(recommendations) > 0

\* the part of C16 that the code keeps: the error is not propagated, and the
\* fallback holds its alert exactly when today's HRV is under 90 % of the
\* baseline's
C16_FallbackAsCoded ==
    RemoteCallFailed =>
        /\ ~rejected
        /\ Len(recommendations) > 0
             <=> 10 * today.hrv * baseline.hrv.den < 9 * baseline.hrv.num

----------------------------------------------------------------------------
(* Claims about FitnessCoachAgent, checked under SpecFitnessCoach *)

\* the conditions of the two rules, on the results the agent computed
RestDayDue == burnout.level = "Red" \/ readiness.score < 40
TrainingDue == readiness.score >= 80 /\ today.trainingLoad < 60

IsRestDay(rec) ==
    rec.priority = "high" /\ rec.title = "Recovery Day Recommended"
IsTrainingSession(rec) ==
    /\ rec.priority = "medium"
    /\ rec.title \in {<<"HIIT", " Session Today">>, <<"Strength", " Session Today">>}

\* C17: at most one recommendation: a high-priority rest day iff burnout is
\* Red or readiness < 40; otherwise a medium-priority HIIT or Strength
\* session iff readiness >= 80 and today's training load < 60; otherwise
\* nothing. The rest-day rule takes precedence.
C17_RestDayBeforeTraining ==
    op = "FitnessCoachAgent" =>
        /\ Len(recommendations) <= 1
        /\ RestDayDue <=>
               Len(recommendations) = 1 /\ IsRestDay(recommendations[1])
        /\ ~RestDayDue /\ TrainingDue <=>
               Len(recommendations) = 1 /\ IsTrainingSession(recommendations[1])
        /\ ~RestDayDue /\ ~TrainingDue <=> recommendations = <<>>

\* a Red burnout level with readiness >= 80 and a light training load: the
\* rest day is recommended, not a session
C17_Witness ==
    /\ op = "FitnessCoachAgent"
    /\ burnout.level = "Red"
    /\ readiness.score >= 80
    /\ today.trainingLoad < 60
    /\ Len(recommendations) = 1
    /\ IsRestDay(recommendations[1])

----------------------------------------------------------------------------
(* Claims about BurnoutGuardianAgent, checked under SpecBurnoutGuardian *)

\* 1 if the condition holds, else 0
Count(condition) == IF condition THEN 1 ELSE 0

BurnoutSurfaced == Count(burnout.level \in {"Yellow", "Red"})
StressSurfaced == Count(today.stressScore > 70)

IsBurnoutRec(rec) ==
    rec.id[1] = "burnout" /\ rec.title = <<"Burnout Risk: ", burnout.level>>
IsStressRec(rec) ==
    rec.priority = "medium" /\ rec.title = "Stress Relief Needed"
IsAlertFor(rec, anomaly) ==
    /\ rec.priority = "high"
    /\ rec.type = "alert"
    /\ rec.title = <<"Alert: ", anomaly.metric>>

\* C18: in this order: one burnout recommendation iff the level is Yellow
\* or Red, one medium-priority stress recommendation iff today's stress is
\* above 70, then one high-priority alert per anomaly in detection order;
\* their number is [level /= Green] + [stress > 70] + number of anomalies,
\* at most 5.
C18_GuardianOrder ==
    op = "BurnoutGuardianAgent" =>
        /\ Len(recommendations)
               = Count(burnout.level /= "Green") + StressSurfaced + Len(anomalies)
        /\ Len(recommendations) <= 5
        /\ BurnoutSurfaced = 1 <=>
               Len(recommendations) >= 1 /\ IsBurnoutRec(recommendations[1])
        /\ StressSurfaced = 1 <=>
               /\ Len(recommendations) >= BurnoutSurfaced + 1
               /\ IsStressRec(recommendations[BurnoutSurfaced + 1])
        /\ \A i \in 1..Len(recommendations) :
               /\ i > 1 => ~IsBurnoutRec(recommendations[i])
               /\ i /= BurnoutSurfaced + 1 => ~IsStressRec(recommendations[i])
        /\ \A i \in 1..Len(anomalies) :
               IsAlertFor(recommendations[BurnoutSurfaced + StressSurfaced + i],
                          anomalies[i])

\* all five: a Red level, stress above 70 and the three anomalies
C18_Witness ==
    /\ op = "BurnoutGuardianAgent"
    /\ burnout.level = "Red"
    /\ today.stressScore > 70
    /\ Len(anomalies) = 3
    /\ Len(recommendations) = 5
    /\ IsStressRec(recommendations[2])

----------------------------------------------------------------------------
(* Claims about SleepAgent, checked under SpecSleepAgent *)

\* baseline.sleepHours x 7 - sum of the window's sleepHours > 3 hours, over
\* integers: the baseline is num/den tenths of an hour
DebtOverThree ==
    7 * baseline.sleepHours.num
        - FieldSum(last7Days, "sleepHours", 1, Len(last7Days)) * baseline.sleepHours.den
      > 30 * baseline.sleepHours.den

\* the mean sleepEfficiency over the window is < 80; no mean over no record
EfficiencyUnderEighty ==
    /\ Len(last7Days) > 0
    /\ FieldSum(last7Days, "sleepEfficiency", 1, Len(last7Days)) < 80 * Len(last7Days)

IsSleepDebtRec(rec) == rec.priority = "high" /\ rec.title = "Sleep Debt Detected"
IsSleepQualityRec(rec) == rec.priority = "medium" /\ rec.title = "Poor Sleep Quality"

\* C19: a high-priority 'Sleep Debt' recommendation iff baseline.sleepHours
\* x 7 - sum(sleepHours) > 3, strictly, and independently a medium-priority
\* 'Poor Sleep Quality' recommendation iff the mean sleepEfficiency over the
\* window is < 80, strictly; both, one or neither, the debt first.
C19_DebtAndQuality ==
    op = "SleepAgent" =>
        /\ Len(recommendations) = Count(DebtOverThree) + Count(EfficiencyUnderEighty)
        /\ DebtOverThree <=>
               Len(recommendations) >= 1 /\ IsSleepDebtRec(recommendations[1])
        /\ EfficiencyUnderEighty <=>
               /\ Len(recommendations) >= Count(DebtOverThree) + 1
               /\ IsSleepQualityRec(recommendations[Count(DebtOverThree) + 1])

\* both are present, the debt first
C19_Witness ==
    /\ op = "SleepAgent"
    /\ Len(last7Days) = 7
    /\ Len(recommendations) = 2
    /\ IsSleepDebtRec(recommendations[1])
    /\ IsSleepQualityRec(recommendations[2])

\* a debt of exactly 3 hours and a mean efficiency of exactly 80 give nothing
C19_AtTheThresholds ==
    /\ op = "SleepAgent"
    /\ 7 * baseline.sleepHours.num
         - FieldSum(last7Days, "sleepHours", 1, Len(last7Days)) * baseline.sleepHours.den
       = 30 * baseline.sleepHours.den
    /\ FieldSum(last7Days, "sleepEfficiency", 1, Len(last7Days)) = 80 * Len(last7Days)
    /\ recommendations = <<>>

\* every recorded day's sleepHours is at least the baseline's
EveryNightAtBaseline ==
    \A i \in 1..Len(last7Days) :
        last7Days[i].sleepHours * baseline.sleepHours.den >= baseline.sleepHours.num

\* C20: with fewer than 7 records in the window, none included, SleepAgent
\* measures the debt against the days present: a window in which every
\* recorded day's sleepHours is at least baseline.sleepHours produces no
\* Sleep Debt recommendation.
C20_DebtOverDaysPresent ==
    op = "SleepAgent" /\ Len(last7Days) < 7 /\ EveryNightAtBaseline =>
        \A i \in 1..Len(recommendations) : ~IsSleepDebtRec(recommendations[i])

\* what the code does on such a window: the debt is measured against 7
\* nights whatever the number of records, so the recommendation is absent
\* only when the nights present make up for the missing ones
C20_DebtOverSevenNights ==
    op = "SleepAgent" /\ Len(last7Days) < 7 /\ EveryNightAtBaseline =>
        (DebtOverThree <=>
            \E i \in 1..Len(recommendations) : IsSleepDebtRec(recommendations[i]))

----------------------------------------------------------------------------
(* Claims about invalid numeric input, checked under SpecAnomalies *)

\* a baseline field used as a divisor is 0
ZeroDivisor(b) ==
    \E f \in {"hrv", "restingHr", "sleepHours", "sleepEfficiency"} : b[f].num = 0

\* C21: invalid numeric input is clamped or defaulted rather than
\* propagated: when a baseline field used as a divisor is 0, detectAnomalies
\* (like computeReadiness) does not divide by zero, and what it returns is
\* derived from clamped or default values: every deviation it reports is an
\* ordinary decimal number, and the readiness score of the same input takes
\* no deduction for a heart rate measured against a baseline of 0.
C21_NoUndefinedQuotient ==
    op = "detectAnomalies" /\ ZeroDivisor(baseline) =>
        /\ \A i \in 1..Len(anomalies) : anomalies[i].deviation[1].text = "decimal"
        /\ ~Contains(computeReadiness(today, baseline, <<>>).explanation,
                     "Elevated resting heart rate - possible overtraining or illness")

\* what the code does on the all-zero baseline: the resting-HR quotient is
\* x / 0 = Infinity, which is > 10, so the anomaly is reported with the
\* deviation "Infinity% above baseline" and readiness takes the deduction
C21_InfinityReported ==
    op = "detectAnomalies" /\ ZeroDivisor(baseline) /\ today.restingHr > 0 =>
        /\ Len(anomalies) >= 1
        /\ anomalies[1].metric = "Resting Heart Rate"
        /\ anomalies[1].deviation[1].text = "Infinity"
        /\ Contains(computeReadiness(today, baseline, <<>>).explanation,
                    "Elevated resting heart rate - possible overtraining or illness")

----------------------------------------------------------------------------
(* Claims about AgentOrchestrator, checked under SpecOrchestrator *)

\* the position of an agent id in the registry
RegistrationIndex(id) ==
    CHOOSE i \in 1..Len(orchestrator.agents) : orchestrator.agents[i].id = id

\* the recommendations in the merged result that carry the id
MergedOf(id) == SelectSeq(orchestrator.merged, LAMBDA rec : rec.agent = id)

\* C22: for any registry in which some agent's analyze throws, analyze lets
\* no exception escape and returns exactly the concatenation of the
\* recommendations of the non-failing agents in registration order: a
\* failing agent contributes none, and every non-failing agent, also one
\* registered after a failing one, contributes all of its own.
C22_FailureIsolated ==
    orchestrator.pc = "done" =>
        /\ ~orchestrator.escaped
        /\ \A i \in 1..Len(orchestrator.agents) :
               LET agent == orchestrator.agents[i]
               IN MergedOf(agent.id) =
                      IF agent.throws THEN <<>>
                      ELSE <<[agent |-> agent.id, n |-> 1], [agent |-> agent.id, n |-> 2]>>
        /\ \A k \in 1..(Len(orchestrator.merged) - 1) :
               RegistrationIndex(orchestrator.merged[k].agent)
                   <= RegistrationIndex(orchestrator.merged[k + 1].agent)

\* three agents, the first of which throws: the other two contribute
C22_Witness ==
    /\ orchestrator.pc = "done"
    /\ Len(orchestrator.agents) = 3
    /\ orchestrator.agents[1].throws
    /\ ~orchestrator.agents[2].throws
    /\ ~orchestrator.agents[3].throws
    /\ Len(orchestrator.merged) = 4

----------------------------------------------------------------------------
(* Claims about detectAnomalies and computeReadiness together, checked under
   SpecAnomalies *)

\* computeReadiness on the arguments of the detectAnomalies call
ReadinessOfSameInput == computeReadiness(today, baseline, <<>>)

HrAnomalyReported == Contains(MetricsOf(anomalies), "Resting Heart Rate")
HrvAnomalyReported == Contains(MetricsOf(anomalies), "Heart Rate Variability")

\* C24: on the same (today, baseline) the 'Resting Heart Rate' anomaly is
\* reported iff computeReadiness applies the 20-point elevated-resting-HR
\* deduction, the 'Heart Rate Variability' anomaly iff it applies the
\* 25-point 'HRV significantly below baseline' deduction; so an input with
\* either anomaly has a readiness score of at most 80.
C24_AnomaliesMatchDeductions ==
    op = "detectAnomalies" =>
        /\ HrAnomalyReported <=>
               Contains(ReadinessOfSameInput.explanation,
                        "Elevated resting heart rate - possible overtraining or illness")
        /\ HrvAnomalyReported <=>
               Contains(ReadinessOfSameInput.explanation,
                        "HRV significantly below baseline - high stress or fatigue")
        /\ HrAnomalyReported \/ HrvAnomalyReported => ReadinessOfSameInput.score <= 80

\* a resting-HR anomaly alone, on a baseline without zero fields: the score
\* is exactly 80
C24_Witness ==
    /\ op = "detectAnomalies"
    /\ PositiveBaseline(baseline)
    /\ HrAnomalyReported
    /\ ~HrvAnomalyReported
    /\ ReadinessOfSameInput.score = 80

----------------------------------------------------------------------------
(* Claims about recommendation ids, checked under SpecCycle *)

\* the ids of a list of recommendations are pairwise distinct
DistinctIds(recs) ==
    \A i, j \in 1..Len(recs) : i /= j => recs[i].id /= recs[j].id

\* every recommendation of the list was created in the same millisecond
SameMillisecond(recs) ==
    \A i, j \in 1..Len(recs) : recs[i].createdAt = recs[j].createdAt

\* C25: within one analysis cycle over the same context the ids produced by
\* SleepAgent, FitnessCoachAgent and BurnoutGuardianAgent together are
\* pairwise distinct, also when every Date.now() returns the same
\* millisecond; ids of two different cycles can collide when both cycles run
\* in the same millisecond (the witness is such a state).
C25_IdsDistinctWithinCycle ==
    /\ DistinctIds(recommendations)
    /\ \A c \in 1..Len(history) : DistinctIds(history[c])

\* a second cycle of eight recommendations, all of one millisecond, every id
\* of which was already used by the first cycle
C25_Witness ==
    /\ op = "BurnoutGuardianAgent"
    /\ Len(history) = 1
    /\ Len(recommendations) = 8
    /\ SameMillisecond(recommendations)
    /\ \A i \in 1..Len(recommendations) :
           \E j \in 1..Len(history[1]) : history[1][j].id = recommendations[i].id

----------------------------------------------------------------------------
(* Claims about the options of the Simulate page, checked under SpecWhatIf *)

\* the labels of the five options, in the order of the page, and the deltas
\* (readiness, sleep in tenths of an hour, recovery) of each one's own
\* activity: zone-2, hiit, strength, rest, extra sleep
C26_Labels ==
    <<<<"3", "0", "m", "i", "n", " ", "Z", "o", "n", "e", "-", "2", " ", "R", "u", "n">>,
      <<"3", "0", "m", "i", "n", " ", "H", "I", "I", "T", " ", "S", "e", "s", "s", "i", "o", "n">>,
      <<"4", "5", "m", "i", "n", " ", "S", "t", "r", "e", "n", "g", "t", "h", " ", "T", "r", "a", "i", "n", "i", "n", "g">>,
      <<"F", "u", "l", "l", " ", "R", "e", "s", "t", " ", "D", "a", "y">>,
      <<"E", "x", "t", "r", "a", " ", "1", "h", "r", " ", "S", "l", "e", "e", "p", " ", "T", "o", "n", "i", "g", "h", "t">>>>
C26_OwnBranch == <<<<-5, 0, 5>>, <<-15, -5, -10>>, <<-10, 0, -5>>, <<10, 5, 15>>, <<12, 10, 20>>>>

\* C26: each of the five options of the Simulate page is mapped by
\* simulateWhatIf to the branch of its own activity and never to the
\* default 'moderate activity' result.
C26_OptionsReachOwnBranch ==
    op = "simulateWhatIf" =>
        \A k \in 1..5 :
            optionLabel = C26_Labels[k] =>
                /\ <<simulation.readinessDelta, simulation.sleepDelta,
                     simulation.recoveryDelta>> = C26_OwnBranch[k]
                /\ simulation.explanation
                       /= "Moderate activity. Slight impact on readiness."

\* what the code does: the first four options reach their branch, 'Extra
\* 1hr Sleep Tonight' holds neither "extra sleep" nor "early bed" (nor
\* "rest") and gets the default result
C26_ExtraSleepIsDefault ==
    op = "simulateWhatIf" =>
        /\ \A k \in 1..4 :
               optionLabel = C26_Labels[k] =>
                   <<simulation.readinessDelta, simulation.sleepDelta,
                     simulation.recoveryDelta>> = C26_OwnBranch[k]
        /\ optionLabel = C26_Labels[5] =>
               simulation = WhatIf(-8, 0, 0, "Moderate activity. Slight impact on readiness.")

----------------------------------------------------------------------------
(* Claims about PullToRefresh, checked under SpecPullToRefresh *)

\* C27: never two refreshes in flight, whatever the touch events: onRefresh
\* is not invoked while an earlier invocation is pending; pullDistance stays
\* within [0, 120]; and once a refresh settles, resolved or rejected,
\* isRefreshing is false and pullDistance is 0.
C27_OneRefreshInFlight ==
    /\ pullToRefresh.inFlight \in {0, 1}
    /\ pullToRefresh.inFlight = 1 <=> pullToRefresh.isRefreshing
    /\ pullToRefresh.pullDistance >= 0
    /\ pullToRefresh.pullDistance <= 120
    /\ op = "refreshSettled" =>
           ~pullToRefresh.isRefreshing /\ pullToRefresh.pullDistance = 0

\* a refresh was rejected, and the handlers still close over the render
\* made while it was pending, with a pull beyond the threshold
C27_Witness ==
    /\ op = "refreshSettled"
    /\ pullToRefresh.settled = "rejected"
    /\ pullToRefresh.rendered.isRefreshing
    /\ pullToRefresh.rendered.pullDistance = 120
    /\ pullToRefresh.pullDistance = 0

----------------------------------------------------------------------------
(* Claims about BreathingExercise, checked under SpecBreathing *)

PhaseOrder == <<"inhale", "hold", "exhale", "pause">>

\* the phases of non-zero length, per exercise
TimedPhases ==
    ("coherent" :> {"inhale", "exhale"})
    @@ ("box" :> {"inhale", "hold", "exhale", "pause"})
    @@ ("478" :> {"inhale", "hold", "exhale"})

PhaseIndex(phase) == CHOOSE i \in 1..4 : PhaseOrder[i] = phase

\* the phase k places after phase in the cyclic order
PhaseAfter(phase, k) == PhaseOrder[((PhaseIndex(phase) - 1 + k) % 4) + 1]

\* the first phase of non-zero length after phase in the cyclic order
NextTimedPhase(type, phase) ==
    LET k == CHOOSE k \in 1..4 :
                 /\ PhaseAfter(phase, k) \in TimedPhases[type]
                 /\ \A j \in 1..(k - 1) : PhaseAfter(phase, j) \notin TimedPhases[type]
    IN PhaseAfter(phase, k)

\* C28: the current phase is never a phase of length 0; short of a reset,
\* whenever the phase changes it changes to the next phase of non-zero
\* length in the order inhale, hold, exhale, pause, inhale; and the cycle
\* counter goes up by 1 on a change back to inhale and stays as it is on
\* every other step.
C28_PhasesAdvanceInOrder ==
    /\ [](breathingExercise.phase \in TimedPhases[breathingExercise.type])
    /\ [][op' # "reset" =>
            LET advanced == breathingExercise'.phase # breathingExercise.phase
            IN /\ advanced =>
                      breathingExercise'.phase =
                          NextTimedPhase(breathingExercise.type, breathingExercise.phase)
               /\ breathingExercise'.cycleCount =
                      breathingExercise.cycleCount
                          + (IF advanced /\ breathingExercise'.phase = "inhale"
                             THEN 1 ELSE 0)]_vars

\* a coherent session that skipped hold and pause, is through its first
\* cycle and has skipped hold again
C28_Witness ==
    /\ op = "tick"
    /\ breathingExercise.type = "coherent"
    /\ breathingExercise.cycleCount = 1
    /\ breathingExercise.phase = "exhale"

\* C29: when a session is saved, it is the only one saved and it has run
\* (not counting the time it was paused) for the configured duration. The
\* interval fires up to a second late, so the running time may overshoot
\* by that second.
C29_ResumeContinues ==
    breathingExercise.saved # <<>> =>
        /\ Len(breathingExercise.saved) = 1
        /\ breathingExercise.running >= breathingExercise.durationSeconds
        /\ breathingExercise.running <= breathingExercise.durationSeconds + 1

\* a session never paused is saved once, after the configured duration
C29_UnpausedOnTime ==
    (breathingExercise.saved # <<>> /\ breathingExercise.toggles = 1) =>
        /\ Len(breathingExercise.saved) = 1
        /\ breathingExercise.running >= breathingExercise.durationSeconds
        /\ breathingExercise.running <= breathingExercise.durationSeconds + 1

\* a session is saved the configured duration after its last start or
\* resume, whatever it had run before
C29_CountsFromLastStart ==
    breathingExercise.saved # <<>> =>
        /\ Len(breathingExercise.saved) = 1
        /\ breathingExercise.saved[1].completedAt - breathingExercise.startTimeRef
               \in breathingExercise.durationSeconds
                       .. (breathingExercise.durationSeconds + 1)
        /\ breathingExercise.running
               >= breathingExercise.saved[1].completedAt - breathingExercise.startTimeRef

----------------------------------------------------------------------------
(* Claims about parseICalendar, checked under SpecCalendar *)

\* the blocks of the file that have both a SUMMARY and a start, in file order
CompleteBlocks ==
    SelectSeq(calendar.blocks, LAMBDA block : block.summary # "none" /\ block.start # "none")

TitleOf(block) ==
    IF block.summary = "Run" THEN <<"R", "u", "n">> ELSE <<"G", "y", "m">>

\* C30 (first half): one event per block that has both a SUMMARY and a
\* start, in file order, and none for the other blocks.
C30_OneEventPerCompleteBlock ==
    op = "parseICalendar" =>
        /\ Len(calendar.events) = Len(CompleteBlocks)
        /\ \A k \in 1..Len(CompleteBlocks) :
               calendar.events[k].title = TitleOf(CompleteBlocks[k])

\* C30: one event per block that has both a SUMMARY and a start, in file
\* order, none for the other blocks; and the event of a block whose start
\* is given as DTSTART;VALUE=DATE:20240317 has allDay = true and the
\* date-only start 2024-03-17.
C30_AllDayEventsDateOnly ==
    op = "parseICalendar" =>
        /\ Len(calendar.events) = Len(CompleteBlocks)
        /\ \A k \in 1..Len(CompleteBlocks) :
               /\ calendar.events[k].title = TitleOf(CompleteBlocks[k])
               /\ CompleteBlocks[k].start = "date" =>
                      /\ calendar.events[k].allDay
                      /\ calendar.events[k].start = <<"2", "0", "2", "4", "-", "0", "3", "-", "1", "7">>

\* what the parser emits for a DTSTART;VALUE=DATE block: a date-time start
\* with empty time fields, and allDay not set
C30_AllDayParsedAsDateTime ==
    op = "parseICalendar" =>
        \A k \in 1..MathMin(Len(CompleteBlocks), Len(calendar.events)) :
            CompleteBlocks[k].start = "date" =>
                /\ ~calendar.events[k].allDay
                /\ calendar.events[k].start = <<"2", "0", "2", "4", "-", "0", "3", "-", "1", "7", "T", ":", ":">>

====
